---------------------------- MODULE Spec2Model ----------------------------
(***************************************************************************)
(* Private Multi-Converter backend: the two in-memory job registries       *)
(* (routes/convert.ts, routes/youtube.ts), the background completion of    *)
(* each job, the managed temporary directory and the cleanup sweep         *)
(* (utils/cleanup.ts).                                                     *)
(*                                                                         *)
(* One action is one run-to-completion turn of the Node.js event loop: a   *)
(* request handler up to its first pending await, or the continuation      *)
(* that runs when an external tool (sharp, ffmpeg, soffice, yt-dlp)        *)
(* settles, including the promise continuations chained to it.             *)
(***************************************************************************)
EXTENDS Integers, Sequences, FiniteSets, TLC

VARIABLES
    alive,      \* the server process is running
    minute,     \* the minute of the wall clock, modulo the cleanup interval
    files,      \* the managed temporary directory: entry name -> age, the
                \* minutes from its mtime to Date.now(), counted up to MaxAge
    jobs,       \* routes/convert.ts `jobs`: job id -> record
    tasks,      \* conversions in flight: job id -> closure of the background task
    ytJobs,     \* routes/youtube.ts `jobs`: job id -> record
    ytTasks,    \* downloads in flight: job id -> closure and position
    uuidCount,  \* number of uuidv4() values drawn so far
    rejected,   \* number of uploads rejected for their missing type so far
    errorLog,   \* the paths deleteFile reported with console.error
    call,       \* a function of the code that holds no job state, with the
                \* arguments it is applied to
    reply       \* what that application returned or sent

vars == <<alive, minute, files, jobs, tasks, ytJobs, ytTasks, uuidCount, rejected, errorLog,
         call, reply>>

---------------------------------------------------------------------------
(* Bounds of the model *)

MaxSubmissions == 1

MaxAge == 2

cleanupIntervalMinutes == 1

---------------------------------------------------------------------------
(* JavaScript values *)

\* the value `undefined`
Undefined == "<undefined>"

\* truthiness of a string-or-undefined value
Truthy(v) == v /= Undefined /\ v /= ""

\* a || b
OrElse(a, b) == IF Truthy(a) THEN a ELSE b

\* { ...r, ...u }
Spread(r, u) ==
    [k \in DOMAIN r \cup DOMAIN u |-> IF k \in DOMAIN u THEN u[k] ELSE r[k]]

\* r.k, where a missing property reads as undefined
Get(r, k) == IF k \in DOMAIN r THEN r[k] ELSE Undefined

\* f with the key k removed
Without(f, k) == [x \in DOMAIN f \ {k} |-> f[x]]

\* a write that lands on every key of f
With_All(f, k, v) == [x \in DOMAIN f \cup {k} |-> v]

\* f with the key k bound to v
With(f, k, v) == [x \in DOMAIN f \cup {k} |-> IF x = k THEN v ELSE f[x]]

Empty == <<>>

\* no function is being applied
NoCall == [fn |-> "<none>"]

---------------------------------------------------------------------------
(* Names *)

\* the n-th value returned by uuidv4()
Uuid(n) == "u" \o ToString(n)

tempDir == "/temp"

\* path.join(tempDir, name)
PathJoin(dir, name) == dir \o "/" \o name

\* fs.existsSync(path)
existsSync(fs, path) == \E n \in DOMAIN fs : PathJoin(tempDir, n) = path

\* the directory entry a path of the managed directory names
EntryOf(fs, path) == CHOOSE n \in DOMAIN fs : PathJoin(tempDir, n) = path

\* fs.unlinkSync(path) that succeeds
\* an unlink that removes nothing
unlinkSync_Noop(fs, path) == fs

unlinkSync(fs, path) == Without(fs, EntryOf(fs, path))

\* a file written (created or rewritten) now
writeFile(fs, name) == With(fs, name, 0)

\* the directory a minute later
Aged(fs) == [f \in DOMAIN fs |-> IF fs[f] < MaxAge THEN fs[f] + 1 ELSE MaxAge]


\* deleteFile testing fs.existsSync on a path that is never there
deleteFile_WrongPath(fs, path, fails) ==
    [fs |-> fs, ret |-> FALSE, logged |-> {}]

\* deleteFile returning true whatever happened
deleteFile_Optimistic(fs, path, fails) ==
    IF existsSync(fs, path) /\ ~fails
    THEN [fs |-> unlinkSync(fs, path), ret |-> TRUE, logged |-> {}]
    ELSE [fs |-> fs, ret |-> TRUE, logged |-> {}]

\* deleteFile(filePath): the directory afterwards, the value returned, and
\* what the catch branch logged; `fails` says fs.unlinkSync throws
deleteFile(fs, path, fails) ==
    IF existsSync(fs, path)
    THEN IF fails THEN [fs |-> fs, ret |-> FALSE, logged |-> {path}]
                  ELSE [fs |-> unlinkSync(fs, path), ret |-> TRUE, logged |-> {}]
    ELSE [fs |-> fs, ret |-> FALSE, logged |-> {}]

---------------------------------------------------------------------------
(* services/fileConverter.ts *)

\* the list of isValidConversionType
validTypes ==
    {"mp4-to-mp3", "png-to-jpg", "jpg-to-png", "png-to-webp", "jpg-to-webp",
     "webp-to-png", "webp-to-jpg", "image-to-webp", "pdf-to-jpg", "docx-to-pdf"}

isValidConversionType(type) == type \in validTypes

\* the cases of the switch in convertFile
SwitchCases ==
    {"mp4-to-mp3", "png-to-jpg", "png-to-webp", "jpg-to-png", "jpg-to-webp",
     "webp-to-png", "webp-to-jpg", "image-to-webp", "pdf-to-jpg", "docx-to-pdf"}

\* the extension each strategy gives its output file
OutputExt(type) ==
    CASE type = "mp4-to-mp3" -> ".mp3"
      [] type \in {"png-to-jpg", "webp-to-jpg", "pdf-to-jpg"} -> ".jpg"
      [] type \in {"jpg-to-png", "webp-to-png"} -> ".png"
      [] type \in {"png-to-webp", "jpg-to-webp", "image-to-webp"} -> ".webp"
      [] type = "docx-to-pdf" -> ".pdf"

\* the text each strategy puts before the message of the error it caught
FailPrefix(type) ==
    CASE type = "mp4-to-mp3" -> "Audio extraction failed: "
      [] type = "png-to-jpg" -> "PNG to JPG failed: "
      [] type = "jpg-to-png" -> "JPG to PNG failed: "
      [] type = "png-to-webp" -> "PNG to WebP failed: "
      [] type = "jpg-to-webp" -> "JPG to WebP failed: "
      [] type = "webp-to-png" -> "WebP to PNG failed: "
      [] type = "webp-to-jpg" -> "WebP to JPG failed: "
      [] type = "image-to-webp" -> "Image to WebP failed: "
      [] type = "pdf-to-jpg" -> "PDF to JPG requires libvips with poppler support. "
      [] type = "docx-to-pdf" -> "DOCX to PDF requires LibreOffice. "

\* what the external tool of a strategy can do
ToolOutcomes(type) ==
    IF type = "docx-to-pdf" THEN {"ok", "nofile", "fail"} ELSE {"ok", "fail"}

\* the message of the error a failing tool raises
ToolMessage == "exit 1"

Success(outputPath, outputFileName) ==
    [success |-> TRUE, outputPath |-> outputPath, outputFileName |-> outputFileName]

Failure(error) == [success |-> FALSE, error |-> error]

\* the result convertFile resolves with, once the tool has ended with `outcome`
convertFile(type, outputFileName, outcome) ==
    IF type \notin SwitchCases
    THEN Failure("Unsupported conversion type: " \o type
                 \o ". Supported types: mp4-to-mp3, png-to-jpg, jpg-to-png, png-to-webp, jpg-to-webp, webp-to-png, webp-to-jpg, pdf-to-jpg, docx-to-pdf")
    ELSE CASE outcome = "ok" -> Success(PathJoin(tempDir, outputFileName), outputFileName)
           [] outcome = "nofile" -> Failure("LibreOffice conversion failed - output file not found")
           [] outcome = "fail" -> Failure(FailPrefix(type) \o ToolMessage)


---------------------------------------------------------------------------
(* utils/cleanup.ts *)

\* now - stats.mtimeMs, in milliseconds
AgeMs(fs, f) == fs[f] * 60 * 1000

\* the entries a sweep finds with maxAge twice the interval
Expired_Twice(fs) == {f \in DOMAIN fs : AgeMs(fs, f) > 2 * cleanupIntervalMinutes * 60 * 1000}

\* the entries a sweep finds, with >= for the > of the comparison
Expired_AtLeast(fs) == {f \in DOMAIN fs : AgeMs(fs, f) >= cleanupIntervalMinutes * 60 * 1000}

\* the entries a sweep finds older than maxAge
Expired(fs) == {f \in DOMAIN fs : AgeMs(fs, f) > cleanupIntervalMinutes * 60 * 1000}

\* cleanupTempFiles(): the directory after a sweep in which statSync or
\* unlinkSync throws for the entries of `errs`
cleanupTempFiles(fs, errs) == [f \in DOMAIN fs \ (Expired(fs) \ errs) |-> fs[f]]

---------------------------------------------------------------------------
(* routes/convert.ts *)

\* res.status(code).json(body)
Response(code, body) == [code |-> code, body |-> body]

ErrorBody(error, message) == [error |-> error, message |-> message]

\* the uploads a client sends: the original name of the file (or none), its type field
NoFile == "<no file>"

ConvRequests ==
    {[file |-> "a.png", type |-> "png-to-jpg"],
     [file |-> "a.docx", type |-> "docx-to-pdf"],
     [file |-> "a.pdf", type |-> "docx-to-pdf"],
     [file |-> "a.png", type |-> "png-to-gif"],
     [file |-> "a.png", type |-> Undefined],
     [file |-> NoFile, type |-> "png-to-jpg"]}

\* path.extname(file.originalname)
extname(originalname) ==
    CASE originalname = "a.png" -> ".png"
      [] originalname = "a.docx" -> ".docx"
      [] originalname = "a.pdf" -> ".pdf"

\* the record stored at submission, with the first value of the status type
ConvInitialJob_Pending(originalname, inputPath) ==
    [status |-> "pending", progress |-> 50,
     originalFileName |-> originalname, inputPath |-> inputPath]

\* the record stored at submission
ConvInitialJob(originalname, inputPath) ==
    [status |-> "processing", progress |-> 50,
     originalFileName |-> originalname, inputPath |-> inputPath]

\* the record stored when the strategy succeeded, without its downloadUrl
ConvCompletedJob_NoUrl(job, result) ==
    Spread(job, [status |-> "completed", progress |-> 100,
                 convertedFileName |-> result.outputFileName,
                 outputPath |-> result.outputPath])

\* the record stored when the strategy succeeded
ConvCompletedJob(job, result) ==
    Spread(job, [status |-> "completed", progress |-> 100,
                 convertedFileName |-> result.outputFileName,
                 downloadUrl |-> "/api/convert/download/" \o result.outputFileName,
                 outputPath |-> result.outputPath])

\* the record stored when the strategy failed, with its progress reset
ConvErrorJob_Reset(job, result) ==
    Spread(job, [status |-> "error", progress |-> 0,
                 error |-> OrElse(Get(result, "error"), "Conversion failed")])

\* the record stored when the strategy failed
ConvErrorJob(job, result) ==
    Spread(job, [status |-> "error",
                 error |-> OrElse(Get(result, "error"), "Conversion failed")])

\* the write of the background completion, without its else branch
ConvSettledJob_NoElse(job, result) ==
    IF result.success /\ Truthy(Get(result, "outputPath"))
                      /\ Truthy(Get(result, "outputFileName"))
    THEN ConvCompletedJob(job, result)
    ELSE job

\* the write of the background completion
ConvSettledJob(job, result) ==
    IF result.success /\ Truthy(Get(result, "outputPath"))
                      /\ Truthy(Get(result, "outputFileName"))
    THEN ConvCompletedJob(job, result)
    ELSE ConvErrorJob(job, result)

\* GET /status/:jobId, without the error text of the record
ConvStatusBody_NoError(id, job) ==
    [id |-> id, status |-> job.status, progress |-> job.progress,
     originalFileName |-> Get(job, "originalFileName"),
     convertedFileName |-> Get(job, "convertedFileName"),
     downloadUrl |-> Get(job, "downloadUrl"),
     error |-> Undefined]

\* GET /status/:jobId
ConvStatusBody(id, job) ==
    [id |-> id, status |-> job.status, progress |-> job.progress,
     originalFileName |-> Get(job, "originalFileName"),
     convertedFileName |-> Get(job, "convertedFileName"),
     downloadUrl |-> Get(job, "downloadUrl"),
     error |-> Get(job, "error")]

\* A conversion whose type no case of convertFile handles resolves at once: its
\* completion runs as a microtask of the turn that submitted it, before any
\* other handler, timer or tool event.
MicrotaskPending == \E j \in DOMAIN tasks : tasks[j].type \notin SwitchCases

\* the event loop may start a new turn
Idle == alive /\ ~MicrotaskPending

\* the submissions that drew a uuidv4() value so far
Submissions ==
    Cardinality(DOMAIN jobs) + Cardinality(DOMAIN ytTasks \cup DOMAIN ytJobs) + rejected


\* path.basename(inputPath, path.extname(inputPath)) of a staged upload
basename(inputPath) ==
    CHOOSE u \in {Uuid(i) : i \in 0..uuidCount} :
        \E e \in {".png", ".docx", ".pdf"} : inputPath = PathJoin(tempDir, u \o e)

\* the path at which convertDocxToPdf looks for the file soffice wrote
libreOutputPath(inputPath) == PathJoin(tempDir, basename(inputPath) \o ".pdf")

\* how the strategy ends when its tool ended with `outcome`: convertDocxToPdf
\* succeeds whenever fs.existsSync(libreOutputPath), whoever wrote that file
Found(fs, type, inputPath, outcome) ==
    IF /\ type = "docx-to-pdf"
       /\ outcome = "nofile"
       /\ existsSync(fs, libreOutputPath(inputPath))
    THEN "ok"
    ELSE outcome

\* the files the tool of a strategy leaves, once it has ended with `outcome`
ToolEffect(fs, type, inputPath, outputFileName, outcome) ==
    IF type \notin SwitchCases \/ outcome = "fail"
    THEN fs
    ELSE IF type = "docx-to-pdf"
         THEN \* soffice writes <base>.pdf in the directory, or nothing;
              \* fs.renameSync moves what is at that path to the output path
              LET libre == basename(inputPath) \o ".pdf"
                  written == IF outcome = "ok" THEN writeFile(fs, libre) ELSE fs
              IN  IF existsSync(written, libreOutputPath(inputPath))
                  THEN With(Without(written, libre), outputFileName, written[libre])
                  ELSE written
         ELSE writeFile(fs, outputFileName)

\* POST /: the response sent to the request, in the current state
ConvSubmitResponse(req) ==
    IF req.file = NoFile
    THEN Response(400, ErrorBody("Bad Request", "No file uploaded"))
    ELSE IF ~Truthy(req.type)
         THEN Response(400, ErrorBody("Bad Request", "Conversion type is required"))
         ELSE Response(200, [id |-> Uuid(uuidCount + 1), status |-> "processing",
                             progress |-> 50, originalFileName |-> req.file])

\* POST /  without a file
ConvSubmitNoFile(req) ==
    /\ Idle
    /\ req.file = NoFile
    /\ UNCHANGED vars

\* a rejection for the missing type that leaves the staged upload where it is
ConvSubmitNoType_KeepsFile(req, unlinkFails) ==
    /\ Idle
    /\ req.file /= NoFile
    /\ ~Truthy(req.type)
    /\ Submissions < MaxSubmissions
    /\ files' = writeFile(files, Uuid(uuidCount) \o extname(req.file))
    /\ uuidCount' = uuidCount + 1
    /\ rejected' = rejected + 1
    /\ UNCHANGED <<alive, minute, jobs, tasks, ytJobs, ytTasks, errorLog, call, reply>>

\* POST /  with a file and no type: the staged upload is deleted
ConvSubmitNoType(req, unlinkFails) ==
    /\ Idle
    /\ req.file /= NoFile
    /\ ~Truthy(req.type)
    /\ Submissions < MaxSubmissions
    /\ LET name == Uuid(uuidCount) \o extname(req.file)
           staged == writeFile(files, name)
           deleted == deleteFile(staged, PathJoin(tempDir, name), unlinkFails)
       IN  /\ files' = deleted.fs
           /\ errorLog' = errorLog \cup deleted.logged
    /\ uuidCount' = uuidCount + 1
    /\ rejected' = rejected + 1
    /\ UNCHANGED <<alive, minute, jobs, tasks, ytJobs, ytTasks, call, reply>>

\* POST /  with a file and a type: the job is registered, the strategy started
ConvSubmit(req) ==
    /\ Idle
    /\ req.file /= NoFile
    /\ Truthy(req.type)
    /\ Submissions < MaxSubmissions
    /\ LET name == Uuid(uuidCount) \o extname(req.file)
           inputPath == PathJoin(tempDir, name)
           jobId == Uuid(uuidCount + 1)
           supported == req.type \in SwitchCases
           outputFileName == IF supported
                             THEN Uuid(uuidCount + 2) \o OutputExt(req.type)
                             ELSE Undefined
       IN  /\ files' = writeFile(files, name)
           /\ jobs' = With(jobs, jobId, ConvInitialJob(req.file, inputPath))
           /\ tasks' = With(tasks, jobId, [type |-> req.type, inputPath |-> inputPath,
                                          outputFileName |-> outputFileName])
           /\ uuidCount' = uuidCount + (IF supported THEN 3 ELSE 2)
    /\ UNCHANGED <<alive, minute, ytJobs, ytTasks, rejected, errorLog, call, reply>>

\* a background completion that leaves the task in place to run the strategy
\* again when it failed
ConvSettle_Retry(j, outcome, unlinkFails) ==
    /\ alive
    /\ j \in DOMAIN tasks
    /\ unlinkFails => existsSync(files, tasks[j].inputPath)
    /\ MicrotaskPending => tasks[j].type \notin SwitchCases
    /\ outcome \in (IF tasks[j].type \in SwitchCases
                    THEN ToolOutcomes(tasks[j].type) ELSE {"fail"})
    /\ LET task == tasks[j]
           result == convertFile(task.type, task.outputFileName,
                                 Found(files, task.type, task.inputPath, outcome))
           written == ToolEffect(files, task.type, task.inputPath,
                                 task.outputFileName, outcome)
           deleted == deleteFile(written, task.inputPath, unlinkFails)
       IN  /\ jobs' = With(jobs, j, ConvSettledJob(jobs[j], result))
           /\ files' = deleted.fs
           /\ errorLog' = errorLog \cup deleted.logged
           /\ tasks' = IF result.success THEN Without(tasks, j) ELSE tasks
    /\ UNCHANGED <<alive, minute, ytJobs, ytTasks, uuidCount, rejected, call, reply>>

\* the background completion: convertFile settles, the record is rewritten,
\* the staged input deleted
ConvSettle(j, outcome, unlinkFails) ==
    /\ alive
    /\ j \in DOMAIN tasks
    /\ unlinkFails => existsSync(files, tasks[j].inputPath)
    /\ MicrotaskPending => tasks[j].type \notin SwitchCases
    /\ outcome \in (IF tasks[j].type \in SwitchCases
                    THEN ToolOutcomes(tasks[j].type) ELSE {"fail"})
    /\ LET task == tasks[j]
           result == convertFile(task.type, task.outputFileName,
                                 Found(files, task.type, task.inputPath, outcome))
           written == ToolEffect(files, task.type, task.inputPath,
                                 task.outputFileName, outcome)
           deleted == deleteFile(written, task.inputPath, unlinkFails)
       IN  /\ jobs' = With(jobs, j, ConvSettledJob(jobs[j], result))
           /\ files' = deleted.fs
           /\ errorLog' = errorLog \cup deleted.logged
    /\ tasks' = Without(tasks, j)
    /\ UNCHANGED <<alive, minute, ytJobs, ytTasks, uuidCount, rejected, call, reply>>

UnknownId == "no-such-job"

\* GET /status/:jobId: the status and the body of the response
ConvStatusResponse(id) ==
    IF id \in DOMAIN jobs
    THEN Response(200, ConvStatusBody(id, jobs[id]))
    ELSE Response(404, ErrorBody("Not Found", "Job not found"))

\* a lookup that stores a record for the id it did not find
ConvStatus_Creates(id) ==
    /\ Idle
    /\ ConvStatusResponse(id).code \in {200, 404}
    /\ jobs' = IF id \in DOMAIN jobs THEN jobs
               ELSE With(jobs, id, [status |-> "pending", progress |-> 0])
    /\ UNCHANGED <<alive, minute, files, tasks, ytJobs, ytTasks, uuidCount, rejected, errorLog, call, reply>>

\* GET /status/:jobId reads the registry and writes nothing
ConvStatus(id) ==
    /\ Idle
    /\ ConvStatusResponse(id).code \in {200, 404}
    /\ UNCHANGED vars

\* a download that trusts the registry instead of looking at the directory
download_FromRegistry(fs, filename) ==
    IF \E j \in DOMAIN jobs : Get(jobs[j], "convertedFileName") = filename
    THEN 200 ELSE 404

\* res.download(path.join(tempDir, filename), ...): the status it ends with
download(fs, filename) == IF existsSync(fs, PathJoin(tempDir, filename)) THEN 200 ELSE 404

\* GET /download/:filename reads the directory and writes nothing
ConvDownload(filename) ==
    /\ Idle
    /\ download(files, filename) \in {200, 404}
    /\ UNCHANGED vars

---------------------------------------------------------------------------
(* the cron job and the shutdown handlers of the entry point *)

\* a sweep that also drops the records whose output it deleted
Tick_Evict(errs) ==
    /\ Idle
    /\ minute' = (minute + 1) % cleanupIntervalMinutes
    /\ IF minute' = 0
       THEN /\ errs \subseteq Expired(Aged(files))
            /\ files' = cleanupTempFiles(Aged(files), errs)
       ELSE /\ errs = {}
            /\ files' = Aged(files)
    /\ jobs' = [j \in {i \in DOMAIN jobs :
                        Truthy(Get(jobs[i], "outputPath"))
                            => existsSync(files', jobs[i].outputPath)} |-> jobs[j]]
    /\ UNCHANGED <<alive, tasks, ytJobs, ytTasks, uuidCount, rejected, errorLog, call, reply>>

\* a minute passes; cron.schedule(`*/${cleanupIntervalMinutes} * * * *`, ...)
\* runs cleanupTempFiles at every minute that is a multiple of the interval
Tick(errs) ==
    /\ Idle
    /\ minute' = (minute + 1) % cleanupIntervalMinutes
    /\ IF minute' = 0
       THEN /\ errs \subseteq Expired(Aged(files))
            /\ files' = cleanupTempFiles(Aged(files), errs)
       ELSE /\ errs = {}
            /\ files' = Aged(files)
    /\ UNCHANGED <<alive, jobs, tasks, ytJobs, ytTasks, uuidCount, rejected, errorLog, call, reply>>

\* a shutdown that empties the temporary directory
Shutdown_Purge(errs) ==
    /\ Idle
    /\ errs \subseteq Expired(files)
    /\ files' = Empty
    /\ alive' = FALSE
    /\ jobs' = Empty
    /\ tasks' = Empty
    /\ ytJobs' = Empty
    /\ ytTasks' = Empty
    /\ UNCHANGED <<minute, uuidCount, rejected, errorLog, call, reply>>

\* gracefulShutdown on SIGTERM or SIGINT: a last sweep, then process.exit(0);
\* the registries and the background tasks live in the memory of the process
\* and end with it
Shutdown(errs) ==
    /\ Idle
    /\ errs \subseteq Expired(files)
    /\ files' = cleanupTempFiles(files, errs)
    /\ alive' = FALSE
    /\ jobs' = Empty
    /\ tasks' = Empty
    /\ ytJobs' = Empty
    /\ ytTasks' = Empty
    /\ UNCHANGED <<minute, uuidCount, rejected, errorLog, call, reply>>

---------------------------------------------------------------------------
(* services/youtubeService.ts *)

\* the request bodies a client sends to POST /download
YtRequests ==
    {[url |-> "https://youtu.be/abc", format |-> "audio"],
     [url |-> "https://youtu.be/abc", format |-> "separate"],
     [url |-> "https://youtu.be/abc", format |-> "gif"],
     [url |-> "https://example.com/abc", format |-> "audio"],
     [url |-> Undefined, format |-> "audio"]}

\* youtubeRegex.test(url), on the URLs above
isValidYouTubeUrl(url) == url \in {"https://youtu.be/abc"}

\* getVideoInfo resolves with the title, or with null when yt-dlp failed
NoInfo == "<null>"

VideoInfos == {"Some title", NoInfo}

\* info?.title
TitleOf(info) == IF info = NoInfo THEN Undefined ELSE info

\* how a yt-dlp process ends: an exit code, or null (written -1 here) when a
\* signal killed it
NullCode == 0 - 1

ExitCodes == {0, 1, NullCode}

\* resolve({ ..., code: code || 0 })
execYtDlpCode(exit) == IF exit = NullCode THEN 0 ELSE exit

\* A diagnostic text is a sequence of tokens: words, blanks and line breaks.
Whitespace == {" ", "\t"}

Newline == "\n"

\* String.prototype.toLowerCase, token by token
LowerOf(token) ==
    CASE token = "ERROR:" -> "error:"
      [] token \in {"Video", "VIDEO"} -> "video"
      [] token = "PRIVATE" -> "private"
      [] token = "Sign" -> "sign"
      [] token = "Blocked" -> "blocked"
      [] token = "Premiere" -> "premiere"
      [] token = "FFmpeg" -> "ffmpeg"
      [] token = "Unable" -> "unable"
      [] OTHER -> token

toLowerCase(text) == [i \in DOMAIN text |-> LowerOf(text[i])]

\* String.prototype.includes: the pattern occurs in the text
includes(text, pattern) ==
    \E i \in 0..(Len(text) - Len(pattern)) :
        \A k \in 1..Len(pattern) : text[i + k] = pattern[k]

\* String.prototype.split('\n')
RECURSIVE split(_)
split(text) ==
    IF \A i \in DOMAIN text : text[i] /= Newline
    THEN <<text>>
    ELSE LET i == CHOOSE n \in DOMAIN text :
                      text[n] = Newline /\ \A m \in 1..(n - 1) : text[m] /= Newline
         IN  <<SubSeq(text, 1, i - 1)>> \o split(SubSeq(text, i + 1, Len(text)))

\* String.prototype.trim
trim(line) ==
    LET inked == {i \in DOMAIN line : line[i] \notin Whitespace \cup {Newline}}
    IN  IF inked = {}
        THEN <<>>
        ELSE SubSeq(line, CHOOSE a \in inked : \A b \in inked : a <= b,
                          CHOOSE a \in inked : \A b \in inked : a >= b)

\* the string a sequence of tokens spells
RECURSIVE Str(_)
Str(text) == IF text = <<>> THEN "" ELSE Head(text) \o Str(Tail(text))

\* stderr.split('\n').find(line => line.trim().length > 0) || generic message
firstLine(stderr) ==
    LET lines == split(stderr)
        found == {i \in DOMAIN lines : Len(trim(lines[i])) > 0}
    IN  IF found = {}
        THEN "Download failed - unknown error"
        ELSE OrElse(Str(lines[CHOOSE a \in found : \A b \in found : a <= b]),
                    "Download failed - unknown error")

\* the tests of parseYtDlpError, in their order, on the text `lowerErr`
classify(lowerErr, stderr) ==
    IF \/ includes(lowerErr, <<"video", " ", "unavailable">>)
       \/ includes(lowerErr, <<"private", " ", "video">>)
    THEN "Video is unavailable or private"
    ELSE IF \/ includes(lowerErr, <<"age-restricted">>)
            \/ includes(lowerErr, <<"sign", " ", "in">>)
    THEN "Video is age-restricted and requires sign-in"
    ELSE IF \/ includes(lowerErr, <<"copyright">>)
            \/ includes(lowerErr, <<"blocked">>)
    THEN "Video is blocked due to copyright"
    ELSE IF \/ includes(lowerErr, <<"does", " ", "not", " ", "exist">>)
            \/ includes(lowerErr, <<"removed">>)
    THEN "Video does not exist or has been removed"
    ELSE IF \/ includes(lowerErr, <<"live", " ", "event">>)
            \/ includes(lowerErr, <<"premiere">>)
    THEN "Cannot download live events or premieres"
    ELSE IF /\ includes(lowerErr, <<"yt-dlp">>)
            /\ includes(lowerErr, <<"not", " ", "found">>)
    THEN "yt-dlp is not installed. Please install it: https://github.com/yt-dlp/yt-dlp"
    ELSE IF /\ includes(lowerErr, <<"ffmpeg">>)
            /\ includes(lowerErr, <<"not", " ", "found">>)
    THEN "FFmpeg is not installed or not in PATH"
    ELSE IF \/ includes(lowerErr, <<"unable", " ", "to", " ", "extract">>)
            \/ includes(lowerErr, <<"extractor", " ", "error">>)
    THEN "YouTube extractor error - yt-dlp may need updating. Run: yt-dlp -U"
    ELSE firstLine(stderr)

\* the diagnostic text yt-dlp leaves when it fails
Stderrs == {<<"ERROR:", " ", "Video", " ", "unavailable">>}

\* parseYtDlpError testing the text as it is written
parseYtDlpError_CaseSensitive(stderr) == classify(stderr, stderr)

\* parseYtDlpError(stderr)
parseYtDlpError(stderr) == classify(toLowerCase(stderr), stderr)

\* the output file name a single-output strategy allocates
YtOutputName(format, id) ==
    CASE format = "audio" -> id \o ".mp3"
      [] format \in {"video-only", "video-audio"} -> id \o ".mp4"

videoFileName(id) == id \o "_video.mp4"

audioFileName(id) == id \o "_audio.mp3"

YtSuccess(outputFileName, title) ==
    [success |-> TRUE, outputPath |-> PathJoin(tempDir, outputFileName),
     outputFileName |-> outputFileName, title |-> title]

YtSuccessSeparate(id, title) ==
    [success |-> TRUE, outputPath |-> PathJoin(tempDir, videoFileName(id)),
     outputFileName |-> videoFileName(id),
     audioPath |-> PathJoin(tempDir, audioFileName(id)),
     audioFileName |-> audioFileName(id), title |-> title]

\* downloadAudio, downloadVideoOnly, downloadVideoAudio: the result, once yt-dlp
\* has ended with `exit` and `stderr`
downloadSingle(format, id, title, exit, stderr) ==
    IF execYtDlpCode(exit) /= 0
    THEN Failure(parseYtDlpError(stderr))
    ELSE YtSuccess(YtOutputName(format, id), title)

\* a yt-dlp process that ends with exit code 0 has written its output file
YtWritten(fs, name, exit) == IF exit = 0 THEN writeFile(fs, name) ELSE fs

---------------------------------------------------------------------------
(* routes/youtube.ts *)

validFormats == {"audio", "video-only", "video-audio", "separate"}

\* the record stored once the video info has arrived
YtInitialJob(title, format) ==
    [status |-> "processing", progress |-> 10, title |-> title, format |-> format]

\* a first write of the background task that sets a progress below the one
\* the response reports
YtStartedJob_Lower(job) == Spread(job, [progress |-> 5])

\* the first write of the background task
YtStartedJob(job) == Spread(job, [progress |-> 30])

\* the record stored when the strategy succeeded, with a second URL for
\* every format
YtCompletedJob_AlwaysAudio(job, format, result) ==
    Spread(job, [status |-> "completed", progress |-> 100,
                 title |-> result.title,
                 downloadUrl |-> "/api/youtube/file/" \o result.outputFileName,
                 outputPath |-> result.outputPath,
                 audioDownloadUrl |-> "/api/youtube/file/" \o result.outputFileName,
                 audioPath |-> result.outputPath])

\* the record stored when the strategy succeeded, its progress left alone
YtCompletedJob_NoProgress(job, format, result) ==
    Spread(job, [status |-> "completed",
                 title |-> result.title,
                 downloadUrl |-> "/api/youtube/file/" \o result.outputFileName,
                 outputPath |-> result.outputPath])

\* the record stored when the strategy succeeded
YtCompletedJob(job, format, result) ==
    LET jobData == Spread(job, [status |-> "completed", progress |-> 100,
                                title |-> result.title,
                                downloadUrl |-> "/api/youtube/file/" \o result.outputFileName,
                                outputPath |-> result.outputPath])
    IN  IF format = "separate" /\ Truthy(Get(result, "audioPath"))
                               /\ Truthy(Get(result, "audioFileName"))
        THEN Spread(jobData, [audioDownloadUrl |-> "/api/youtube/file/" \o result.audioFileName,
                              audioPath |-> result.audioPath])
        ELSE jobData

\* the record stored when the strategy failed, without the fallback text
YtErrorJob_NoFallback(job, result) ==
    Spread(job, [status |-> "error", error |-> Get(result, "error")])

\* the record stored when the strategy failed
YtErrorJob(job, result) ==
    Spread(job, [status |-> "error",
                 error |-> OrElse(Get(result, "error"), "Download failed")])

\* the write of the background completion
YtSettledJob(job, format, result) ==
    IF result.success /\ Truthy(Get(result, "outputPath"))
                      /\ Truthy(Get(result, "outputFileName"))
    THEN YtCompletedJob(job, format, result)
    ELSE YtErrorJob(job, result)

\* GET /status/:jobId
YtStatusBody(id, job) ==
    [id |-> id, status |-> job.status, progress |-> job.progress,
     title |-> Get(job, "title"), format |-> Get(job, "format"),
     downloadUrl |-> Get(job, "downloadUrl"),
     audioDownloadUrl |-> Get(job, "audioDownloadUrl"),
     error |-> Get(job, "error")]

\* POST /download without the test of the URL against the pattern
YtValid_NoUrlCheck(req) ==
    /\ Truthy(req.url)
    /\ Truthy(req.format) /\ req.format \in validFormats

\* POST /download: the request passes the three checks of the handler
YtValid(req) ==
    /\ Truthy(req.url)
    /\ Truthy(req.format) /\ req.format \in validFormats
    /\ isValidYouTubeUrl(req.url)

\* POST /download: the response sent to a request one of the checks rejects
YtInvalidResponse(req) ==
    Response(400, ErrorBody("Bad Request",
        IF ~Truthy(req.url) THEN "YouTube URL is required"
        ELSE IF ~Truthy(req.format) \/ req.format \notin validFormats
             THEN "Format must be one of: audio, video-only, video-audio, separate"
             ELSE "Invalid YouTube URL"))

\* POST /download: the response sent once the video info has arrived
YtAcceptedResponse(id, title, format) ==
    Response(200, [id |-> id, status |-> "processing", progress |-> 10,
                   title |-> title, format |-> format])

\* POST /download rejected by one of its three checks
YtSubmitInvalid(req) ==
    /\ Idle
    /\ ~YtValid(req)
    /\ UNCHANGED vars

\* POST /download, up to `await getVideoInfo(url)`
YtSubmit(req) ==
    /\ Idle
    /\ YtValid(req)
    /\ Submissions < MaxSubmissions
    /\ ytTasks' = With(ytTasks, Uuid(uuidCount),
                       [pc |-> "info", url |-> req.url, format |-> req.format])
    /\ uuidCount' = uuidCount + 1
    /\ UNCHANGED <<alive, minute, files, jobs, tasks, ytJobs, rejected, errorLog, call, reply>>

\* POST /download, from the video info on: the job is registered, the
\* background task runs up to the `await getVideoInfo(url)` of its strategy,
\* the response is sent
YtInfoDone(j, info) ==
    /\ Idle
    /\ j \in DOMAIN ytTasks
    /\ ytTasks[j].pc = "info"
    /\ LET task == ytTasks[j]
           title == TitleOf(info)
       IN  /\ ytJobs' = With(ytJobs, j, YtStartedJob(YtInitialJob(title, task.format)))
           /\ ytTasks' = With(ytTasks, j, Spread(task, [pc |-> "title", id |-> Uuid(uuidCount)]))
    /\ uuidCount' = uuidCount + 1
    /\ UNCHANGED <<alive, minute, files, jobs, tasks, rejected, errorLog, call, reply>>

\* the strategy, from its video info on: yt-dlp is started on the download
\* (of the video, for 'separate')
YtTitleDone(j, info) ==
    /\ Idle
    /\ j \in DOMAIN ytTasks
    /\ ytTasks[j].pc = "title"
    /\ ytTasks' = With(ytTasks, j, Spread(ytTasks[j],
                       [pc |-> IF ytTasks[j].format = "separate" THEN "video" ELSE "download",
                        title |-> TitleOf(info)]))
    /\ UNCHANGED <<alive, minute, files, jobs, tasks, ytJobs, uuidCount, rejected, errorLog, call, reply>>

\* a single-output strategy, from the end of its download on, and the
\* completion of the background task
YtDownloadDone(j, exit, stderr) ==
    /\ Idle
    /\ j \in DOMAIN ytTasks
    /\ ytTasks[j].pc = "download"
    /\ LET task == ytTasks[j]
           result == downloadSingle(task.format, task.id, task.title, exit, stderr)
       IN  /\ files' = YtWritten(files, YtOutputName(task.format, task.id), exit)
           /\ ytJobs' = With(ytJobs, j, YtSettledJob(ytJobs[j], task.format, result))
    /\ ytTasks' = Without(ytTasks, j)
    /\ UNCHANGED <<alive, minute, jobs, tasks, uuidCount, rejected, errorLog, call, reply>>

\* downloadSeparate, from the end of the video download on: on failure the
\* task completes, otherwise yt-dlp is started on the audio
YtVideoDone(j, exit, stderr) ==
    /\ Idle
    /\ j \in DOMAIN ytTasks
    /\ ytTasks[j].pc = "video"
    /\ LET task == ytTasks[j]
       IN  IF execYtDlpCode(exit) /= 0
           THEN /\ ytJobs' = With(ytJobs, j, YtSettledJob(ytJobs[j], task.format,
                        Failure("Video download failed: " \o parseYtDlpError(stderr))))
                /\ ytTasks' = Without(ytTasks, j)
                /\ files' = files
           ELSE /\ ytJobs' = ytJobs
                /\ ytTasks' = With(ytTasks, j, Spread(task, [pc |-> "audio"]))
                /\ files' = YtWritten(files, videoFileName(task.id), exit)
    /\ UNCHANGED <<alive, minute, jobs, tasks, uuidCount, rejected, errorLog, call, reply>>

\* the message of the error fs.unlinkSync throws
UnlinkMessages == {"EBUSY: resource busy or locked, unlink", ""}

\* downloadSeparate, from the end of the audio download on, and the
\* completion of the background task
YtAudioDone(j, exit, stderr, unlinkError) ==
    /\ Idle
    /\ j \in DOMAIN ytTasks
    /\ ytTasks[j].pc = "audio"
    /\ LET task == ytTasks[j]
           videoPath == PathJoin(tempDir, videoFileName(task.id))
           failed == execYtDlpCode(exit) /= 0
           cleans == failed /\ existsSync(files, videoPath)
           throws == cleans /\ unlinkError /= Undefined
           result == IF failed
                     THEN IF throws
                          THEN Failure(unlinkError)
                          ELSE Failure("Audio download failed: " \o parseYtDlpError(stderr))
                     ELSE YtSuccessSeparate(task.id, task.title)
       IN  /\ unlinkError /= Undefined => cleans
           /\ files' = IF failed
                       THEN IF cleans /\ ~throws THEN unlinkSync(files, videoPath) ELSE files
                       ELSE YtWritten(files, audioFileName(task.id), exit)
           /\ ytJobs' = With(ytJobs, j, YtSettledJob(ytJobs[j], task.format, result))
    /\ ytTasks' = Without(ytTasks, j)
    /\ UNCHANGED <<alive, minute, jobs, tasks, uuidCount, rejected, errorLog, call, reply>>

\* GET /status/:jobId: the status and the body of the response
YtStatusResponse(id) ==
    IF id \in DOMAIN ytJobs
    THEN Response(200, YtStatusBody(id, ytJobs[id]))
    ELSE Response(404, ErrorBody("Not Found", "Job not found"))

\* GET /status/:jobId reads the registry and writes nothing
YtStatus(id) ==
    /\ Idle
    /\ YtStatusResponse(id).code \in {200, 404}
    /\ UNCHANGED vars

\* GET /file/:filename reads the directory and writes nothing
YtFile(filename) ==
    /\ Idle
    /\ download(files, filename) \in {200, 404}
    /\ UNCHANGED vars

---------------------------------------------------------------------------

\* the names a client asks the download routes for
RequestedNames ==
    DOMAIN files
    \cup ({Get(jobs[j], "convertedFileName") : j \in DOMAIN jobs} \ {Undefined})
    \cup {f \in {videoFileName(Uuid(i)) : i \in 0..uuidCount}
               \cup {audioFileName(Uuid(i)) : i \in 0..uuidCount}
               \cup {YtOutputName("audio", Uuid(i)) : i \in 0..uuidCount} :
             \E j \in DOMAIN ytJobs :
                 "/api/youtube/file/" \o f
                     \in {Get(ytJobs[j], "downloadUrl"), Get(ytJobs[j], "audioDownloadUrl")}}

Init ==
    /\ alive = TRUE
    /\ minute = 0
    /\ files = Empty
    /\ jobs = Empty
    /\ tasks = Empty
    /\ ytJobs = Empty
    /\ ytTasks = Empty
    /\ uuidCount = 0
    /\ rejected = 0
    /\ errorLog = {}
    /\ call = NoCall
    /\ reply = NoCall

Next ==
    \/ \E req \in ConvRequests : ConvSubmitNoFile(req)
    \/ \E req \in ConvRequests, unlinkFails \in BOOLEAN : ConvSubmitNoType(req, unlinkFails)
    \/ \E req \in ConvRequests : ConvSubmit(req)
    \/ \E j \in DOMAIN tasks, outcome \in {"ok", "nofile", "fail"}, unlinkFails \in BOOLEAN :
           ConvSettle(j, outcome, unlinkFails)
    \/ \E id \in DOMAIN jobs \cup {UnknownId} : ConvStatus(id)
    \/ \E filename \in RequestedNames : ConvDownload(filename)
    \/ \E req \in YtRequests : YtSubmitInvalid(req)
    \/ \E req \in YtRequests : YtSubmit(req)
    \/ \E j \in DOMAIN ytTasks, info \in VideoInfos : YtInfoDone(j, info)
    \/ \E j \in DOMAIN ytTasks, info \in VideoInfos : YtTitleDone(j, info)
    \/ \E j \in DOMAIN ytTasks, exit \in ExitCodes, stderr \in Stderrs :
           YtDownloadDone(j, exit, stderr)
    \/ \E j \in DOMAIN ytTasks, exit \in ExitCodes, stderr \in Stderrs :
           YtVideoDone(j, exit, stderr)
    \/ \E j \in DOMAIN ytTasks, exit \in ExitCodes, stderr \in Stderrs,
          unlinkError \in UnlinkMessages \cup {Undefined} :
           YtAudioDone(j, exit, stderr, unlinkError)
    \/ \E id \in DOMAIN ytJobs \cup {UnknownId} : YtStatus(id)
    \/ \E filename \in RequestedNames : YtFile(filename)
    \/ \E errs \in SUBSET DOMAIN files : Tick(errs)
    \/ \E errs \in SUBSET DOMAIN files : Shutdown(errs)

Spec == Init /\ [][Next]_vars

\* the uuidv4() values that become job ids
JobIds == {Uuid(i) : i \in 0..(3 * MaxSubmissions)}

\* the tool a background task of job j waits for ends
ToolEnds(j) ==
    \/ \E outcome \in {"ok", "nofile", "fail"}, unlinkFails \in BOOLEAN :
           ConvSettle(j, outcome, unlinkFails)
    \/ \E info \in VideoInfos : YtInfoDone(j, info)
    \/ \E info \in VideoInfos : YtTitleDone(j, info)
    \/ \E exit \in ExitCodes, stderr \in Stderrs : YtDownloadDone(j, exit, stderr)
    \/ \E exit \in ExitCodes, stderr \in Stderrs : YtVideoDone(j, exit, stderr)
    \/ \E exit \in ExitCodes, stderr \in Stderrs,
          unlinkError \in UnlinkMessages \cup {Undefined} :
           YtAudioDone(j, exit, stderr, unlinkError)

LiveSpec ==
    /\ Init /\ [][Next]_vars
    /\ \A j \in JobIds : WF_vars(ToolEnds(j))

---------------------------------------------------------------------------
(* The properties *)

Terminal == {"completed", "error"}

\* the value of a field a record really has
Present(job, k) == k \in DOMAIN job /\ job[k] /= Undefined

\* the download URLs a status poll of the registries returns
ConvUrls(j) == {ConvStatusResponse(j).body.downloadUrl} \ {Undefined}
YtUrls(j) == {YtStatusResponse(j).body.downloadUrl,
              YtStatusResponse(j).body.audioDownloadUrl} \ {Undefined}

\* the URL names a file that is in the temporary directory
NamesFile(prefix, url) == \E f \in DOMAIN files : url = prefix \o f

\* the files of the temporary directory a completed job holds as its output
CompletedOutputs ==
    {f \in DOMAIN files :
        \/ \E j \in DOMAIN jobs : /\ jobs[j].status = "completed"
                                  /\ Get(jobs[j], "outputPath") = PathJoin(tempDir, f)
        \/ \E j \in DOMAIN ytJobs : /\ ytJobs[j].status = "completed"
                                    /\ PathJoin(tempDir, f) \in {Get(ytJobs[j], "outputPath"),
                                                                 Get(ytJobs[j], "audioPath")}}

\* C1: under the fairness of LiveSpec (every tool that was started ends), a job
\* that is processing is later completed or error, unless the process has
\* exited in between.
EveryJobSettles ==
    /\ \A j \in JobIds :
           (j \in DOMAIN jobs /\ jobs[j].status = "processing")
               ~> (~alive \/ (j \in DOMAIN jobs /\ jobs[j].status \in Terminal))
    /\ \A j \in JobIds :
           (j \in DOMAIN ytJobs /\ ytJobs[j].status = "processing")
               ~> (~alive \/ (j \in DOMAIN ytJobs /\ ytJobs[j].status \in Terminal))

\* a conversion has settled while the process runs, and no task is left
EveryJobSettlesWitness ==
    /\ alive
    /\ tasks = Empty
    /\ \E j \in DOMAIN jobs : jobs[j].status \in Terminal

\* C2: a record enters its registry as processing, and a step that changes the
\* status of a record changes it from processing to completed or error.
StatusMonotonic ==
    [][/\ \A j \in DOMAIN jobs' :
            IF j \in DOMAIN jobs
            THEN jobs'[j].status /= jobs[j].status
                    => jobs[j].status = "processing" /\ jobs'[j].status \in Terminal
            ELSE jobs'[j].status = "processing"
       /\ \A j \in DOMAIN ytJobs' :
            IF j \in DOMAIN ytJobs
            THEN ytJobs'[j].status /= ytJobs[j].status
                    => ytJobs[j].status = "processing" /\ ytJobs'[j].status \in Terminal
            ELSE ytJobs'[j].status = "processing"]_vars

\* a download job has left processing for error
StatusMonotonicWitness ==
    \E j \in DOMAIN ytJobs : ytJobs[j].status = "error" /\ ytJobs[j].progress = 30

\* C3: a record has a downloadUrl exactly when its status is completed, and
\* the downloadUrl it has is not the empty string.
UrlIffCompleted ==
    /\ \A j \in DOMAIN jobs :
           /\ Present(jobs[j], "downloadUrl") <=> jobs[j].status = "completed"
           /\ Present(jobs[j], "downloadUrl") => jobs[j].downloadUrl /= ""
           /\ ConvStatusResponse(j).body.downloadUrl = Get(jobs[j], "downloadUrl")
    /\ \A j \in DOMAIN ytJobs :
           /\ Present(ytJobs[j], "downloadUrl") <=> ytJobs[j].status = "completed"
           /\ Present(ytJobs[j], "downloadUrl") => ytJobs[j].downloadUrl /= ""
           /\ YtStatusResponse(j).body.downloadUrl = Get(ytJobs[j], "downloadUrl")

\* a conversion is completed and its poll carries the URL
UrlIffCompletedWitness ==
    \E j \in DOMAIN jobs :
        /\ jobs[j].status = "completed"
        /\ ConvStatusResponse(j).body.downloadUrl /= Undefined

\* C4: a record has an error text exactly when its status is error, the text
\* is not the empty string, and so no completed record has one.
ErrorIffError ==
    /\ \A j \in DOMAIN jobs :
           /\ Present(jobs[j], "error") <=> jobs[j].status = "error"
           /\ Present(jobs[j], "error") => jobs[j].error /= ""
    /\ \A j \in DOMAIN ytJobs :
           /\ Present(ytJobs[j], "error") <=> ytJobs[j].status = "error"
           /\ Present(ytJobs[j], "error") => ytJobs[j].error /= ""

\* a strategy failed with an empty text and the record has the fallback text
ErrorIffErrorWitness ==
    \E j \in DOMAIN ytJobs :
        ytJobs[j].status = "error" /\ ytJobs[j].error = "Download failed"

\* C5: every download URL a status poll returns names a file that is in the
\* temporary directory.
PolledUrlNamesFile ==
    /\ \A j \in DOMAIN jobs :
           \A url \in ConvUrls(j) : NamesFile("/api/convert/download/", url)
    /\ \A j \in DOMAIN ytJobs :
           \A url \in YtUrls(j) : NamesFile("/api/youtube/file/", url)

\* C6: a download of a name ends with 200 exactly when the file of that name
\* is in the temporary directory; the name of a file a sweep deleted gets 404.
DownloadIffExists ==
    \A filename \in RequestedNames :
        download(files, filename) = 200 <=> filename \in DOMAIN files

\* the output of a completed conversion is gone and its download ends with 404
DownloadIffExistsWitness ==
    \E j \in DOMAIN jobs :
        /\ jobs[j].status = "completed"
        /\ jobs[j].convertedFileName \notin DOMAIN files
        /\ download(files, jobs[j].convertedFileName) = 404

\* C7: the output of a completed job leaves the temporary directory only in a
\* sweep, of the cron job or of the shutdown, and only when its age at that
\* sweep is greater than the threshold.
OutputKeptUntilExpired ==
    [][\A f \in CompletedOutputs :
          f \notin DOMAIN files' =>
              \/ /\ \E errs \in SUBSET DOMAIN files : Tick(errs)
                 /\ Aged(files)[f] * 60 * 1000 > cleanupIntervalMinutes * 60 * 1000
              \/ /\ \E errs \in SUBSET DOMAIN files : Shutdown(errs)
                 /\ files[f] * 60 * 1000 > cleanupIntervalMinutes * 60 * 1000]_vars

\* the output of a completed conversion is as old as the threshold and is
\* still there after the sweep of that minute
OutputKeptUntilExpiredWitness ==
    /\ minute = 0
    /\ \E j \in DOMAIN jobs :
           /\ jobs[j].status = "completed"
           /\ jobs[j].convertedFileName \in DOMAIN files
           /\ files[jobs[j].convertedFileName] = cleanupIntervalMinutes

\* C8: the staged input of a job whose strategy runs leaves the temporary
\* directory only in the step that settles that job (or as the process exits).
InputKeptWhileProcessing ==
    [][\A j \in DOMAIN tasks :
          existsSync(files, tasks[j].inputPath) /\ ~existsSync(files', tasks[j].inputPath)
              => ~alive' \/ (j \notin DOMAIN tasks' /\ jobs'[j].status \in Terminal)]_vars

\* C9 as stated: the staged input of a terminal conversion is not in the
\* temporary directory.
InputGone ==
    \A j \in DOMAIN jobs :
        jobs[j].status \in Terminal => ~existsSync(files, jobs[j].inputPath)

\* C9: the staged input of a terminal conversion is not in the temporary
\* directory, unless deleteFile failed to unlink it and logged the error.
InputGoneOrLogged ==
    \A j \in DOMAIN jobs :
        jobs[j].status \in Terminal =>
            ~existsSync(files, jobs[j].inputPath) \/ jobs[j].inputPath \in errorLog

\* a conversion is terminal, its input is gone and nothing was logged
InputGoneOrLoggedWitness ==
    \E j \in DOMAIN jobs :
        /\ jobs[j].status \in Terminal
        /\ ~existsSync(files, jobs[j].inputPath)
        /\ errorLog = {}

\* C10: a submission whose conversion type is none of validTypes is answered
\* with 400 and the step that handles it adds no record to the registry.
UnsupportedTypeRejected ==
    [][\A req \in ConvRequests :
          (req.file /= NoFile /\ Truthy(req.type) /\ ~isValidConversionType(req.type)
             /\ ConvSubmit(req))
          => ConvSubmitResponse(req).code = 400 /\ jobs' = jobs]_vars

\* the registries and the background tasks are what they were
SameJobs == UNCHANGED <<jobs, tasks, ytJobs, ytTasks>>

\* C11: a submission without a file, without a conversion type, without a URL,
\* with a URL that does not match the pattern, or with a format outside the
\* four formats is answered with a 4xx status, and the step that handles it
\* changes neither a registry nor the set of background tasks.
InvalidSubmissionRejected ==
    [][/\ \A req \in ConvRequests :
            (req.file = NoFile \/ ~Truthy(req.type)) =>
                /\ ConvSubmitResponse(req).code \in 400..499
                /\ (\/ ConvSubmitNoFile(req)
                    \/ \E unlinkFails \in BOOLEAN : ConvSubmitNoType(req, unlinkFails)
                    \/ ConvSubmit(req)) => SameJobs
       /\ \A req \in YtRequests :
            (\/ ~Truthy(req.url)
             \/ ~isValidYouTubeUrl(req.url)
             \/ req.format \notin {"audio", "video-only", "video-audio", "separate"}) =>
                /\ YtInvalidResponse(req).code \in 400..499
                /\ (YtSubmitInvalid(req) \/ YtSubmit(req)) => SameJobs]_vars

\* an upload without a type was rejected and there is no record and no task
InvalidSubmissionRejectedWitness ==
    /\ rejected > 0
    /\ jobs = Empty /\ tasks = Empty /\ ytJobs = Empty /\ ytTasks = Empty

\* the texts a failed audio stage of downloadSeparate returns
AudioFailedTexts == {"Audio download failed: " \o parseYtDlpError(stderr) : stderr \in Stderrs}

\* downloadSeparate returns in this step, its audio stage having failed
AudioStageFailed(j) ==
    /\ ytTasks[j].pc = "audio"
    /\ alive'
    /\ j \notin DOMAIN ytTasks'
    /\ ytJobs'[j].status /= "completed"

RespondsBeforeTools ==
    \A j \in DOMAIN ytTasks : ytTasks[j].pc /= "info"

\* C14: a submission with its required fields is answered 200 with status
\* processing and no error text, and a record that is error shows status error
\* and its text in the status poll.
FailureOnlyInPolls ==
    /\ \A req \in ConvRequests :
           (req.file /= NoFile /\ Truthy(req.type)) =>
               /\ ConvSubmitResponse(req).code = 200
               /\ ConvSubmitResponse(req).body.status = "processing"
               /\ "error" \notin DOMAIN ConvSubmitResponse(req).body
    /\ \A j \in DOMAIN ytTasks : \A info \in VideoInfos :
           LET response == YtAcceptedResponse(j, TitleOf(info), ytTasks[j].format)
           IN  /\ response.code = 200
               /\ response.body.status = "processing"
               /\ "error" \notin DOMAIN response.body
    /\ \A j \in DOMAIN jobs :
           jobs[j].status = "error" =>
               /\ ConvStatusResponse(j).body.status = "error"
               /\ Truthy(ConvStatusResponse(j).body.error)
    /\ \A j \in DOMAIN ytJobs :
           ytJobs[j].status = "error" =>
               /\ YtStatusResponse(j).body.status = "error"
               /\ Truthy(YtStatusResponse(j).body.error)

\* the strategy of a conversion has failed and its poll shows the text
FailureOnlyInPollsWitness ==
    \E j \in DOMAIN jobs :
        /\ ConvStatusResponse(j).body.status = "error"
        /\ ConvStatusResponse(j).body.error = FailPrefix("png-to-jpg") \o ToolMessage

\* C15: the strategy of a job is started in the step that creates its record
\* and in no other step, and is not running once the record is terminal.
StrategyInvokedOnce ==
    [][/\ \A j \in DOMAIN tasks' \ DOMAIN tasks : j \notin DOMAIN jobs
       /\ \A j \in DOMAIN jobs' \ DOMAIN jobs : j \in DOMAIN tasks'
       /\ \A j \in DOMAIN jobs : jobs[j].status \in Terminal => j \notin DOMAIN tasks'
       /\ \A j \in DOMAIN ytTasks' :
              (ytTasks'[j].pc = "title" /\ (j \in DOMAIN ytTasks => ytTasks[j].pc /= "title"))
                  => j \notin DOMAIN ytJobs
       /\ \A j \in DOMAIN ytJobs' \ DOMAIN ytJobs :
              j \in DOMAIN ytTasks' /\ ytTasks'[j].pc = "title"
       /\ \A j \in DOMAIN ytJobs :
              ytJobs[j].status \in Terminal => j \notin DOMAIN ytTasks']_vars

\* the strategy of a conversion has failed, time has passed and no task runs
StrategyInvokedOnceWitness ==
    /\ tasks = Empty
    /\ \E j \in DOMAIN jobs : jobs[j].status = "error"
    /\ \E f \in DOMAIN files : files[f] > 0

\* C17: the progress of a record is an integer from 0 to 100, is 100 in a
\* completed record, and no step lowers it.
ProgressMonotonic ==
    [][/\ \A j \in DOMAIN jobs' :
            /\ jobs'[j].progress \in 0..100
            /\ jobs'[j].status = "completed" => jobs'[j].progress = 100
            /\ j \in DOMAIN jobs => jobs'[j].progress >= jobs[j].progress
       /\ \A j \in DOMAIN ytJobs' :
            /\ ytJobs'[j].progress \in 0..100
            /\ ytJobs'[j].status = "completed" => ytJobs'[j].progress = 100
            /\ j \in DOMAIN ytJobs => ytJobs'[j].progress >= ytJobs[j].progress]_vars

\* a download is completed and its poll shows progress 100
ProgressMonotonicWitness ==
    \E j \in DOMAIN ytJobs :
        /\ ytJobs[j].status = "completed"
        /\ YtStatusResponse(j).body.progress = 100

\* C18: the step that makes a record error leaves its progress as it was.
ProgressKeptOnError ==
    [][/\ \A j \in DOMAIN jobs \cap DOMAIN jobs' :
            (jobs[j].status /= "error" /\ jobs'[j].status = "error")
                => jobs'[j].progress = jobs[j].progress
       /\ \A j \in DOMAIN ytJobs \cap DOMAIN ytJobs' :
            (ytJobs[j].status /= "error" /\ ytJobs'[j].status = "error")
                => ytJobs'[j].progress = ytJobs[j].progress]_vars

\* a conversion is error with the progress of its submission
ProgressKeptOnErrorWitness ==
    \E j \in DOMAIN jobs : jobs[j].status = "error" /\ jobs[j].progress = 50

\* C19: while the process runs no step removes a record from a registry, and
\* the status lookup of a job id that has a record is answered 200 after
\* every step, sweeps included.
RecordsKept ==
    [][alive' =>
          /\ \A j \in DOMAIN jobs :
                 j \in DOMAIN jobs' /\ ConvStatusResponse(j)'.code = 200
          /\ \A j \in DOMAIN ytJobs :
                 j \in DOMAIN ytJobs' /\ YtStatusResponse(j)'.code = 200]_vars

\* a sweep deleted the output of a completed conversion, the process runs
\* and the lookup of the job is answered 200
RecordsKeptWitness ==
    /\ alive
    /\ \E j \in DOMAIN jobs :
           /\ jobs[j].status = "completed"
           /\ ~existsSync(files, jobs[j].outputPath)
           /\ ConvStatusResponse(j).code = 200

\* C20: a status lookup changes no registry and no file; as long as the
\* registry is the same the lookup of an id returns the same response; the
\* lookup of an id without a record is answered 404.
StatusIsPureRead ==
    [][/\ \A id \in DOMAIN jobs \cup DOMAIN ytJobs \cup {UnknownId} :
            (ConvStatus(id) \/ YtStatus(id)) => UNCHANGED <<jobs, ytJobs, files>>
       /\ jobs' = jobs =>
            \A id \in DOMAIN jobs \cup {UnknownId} :
                ConvStatusResponse(id)' = ConvStatusResponse(id)
       /\ ytJobs' = ytJobs =>
            \A id \in DOMAIN ytJobs \cup {UnknownId} :
                YtStatusResponse(id)' = YtStatusResponse(id)
       /\ UnknownId \notin DOMAIN jobs' \cup DOMAIN ytJobs'
       /\ ConvStatusResponse(UnknownId)'.code = 404
       /\ YtStatusResponse(UnknownId)'.code = 404]_vars

\* a download that is processing is looked up, as is an id without a record
StatusIsPureReadWitness ==
    /\ \E j \in DOMAIN ytJobs :
           /\ YtStatusResponse(j).code = 200
           /\ YtStatusResponse(j).body.status = "processing"
           /\ ENABLED YtStatus(j)
    /\ YtStatusResponse(UnknownId).code = 404
    /\ ENABLED YtStatus(UnknownId)

---------------------------------------------------------------------------
(* Two jobs in flight *)

\* the second of two submissions of the same minute: a conversion, or a
\* download whose handler waits for the video info
SecondJobs == {"docx-to-pdf", "audio", "separate"}

\* the state after POST / with a.png as png-to-jpg and a second submission
PairInit ==
    /\ alive = TRUE
    /\ minute = 0
    /\ rejected = 0
    /\ errorLog = {}
    /\ call = NoCall
    /\ reply = NoCall
    /\ \E second \in SecondJobs :
        LET inputA == PathJoin(tempDir, Uuid(0) \o ".png")
            jobsA == With(Empty, Uuid(1), ConvInitialJob("a.png", inputA))
            tasksA == With(Empty, Uuid(1), [type |-> "png-to-jpg", inputPath |-> inputA,
                                           outputFileName |-> Uuid(2) \o ".jpg"])
            filesA == writeFile(Empty, Uuid(0) \o ".png")
            inputB == PathJoin(tempDir, Uuid(3) \o ".docx")
        IN  IF second = "docx-to-pdf"
            THEN /\ files = writeFile(filesA, Uuid(3) \o ".docx")
                 /\ jobs = With(jobsA, Uuid(4), ConvInitialJob("a.docx", inputB))
                 /\ tasks = With(tasksA, Uuid(4), [type |-> "docx-to-pdf", inputPath |-> inputB,
                                                  outputFileName |-> Uuid(5) \o ".pdf"])
                 /\ ytJobs = Empty
                 /\ ytTasks = Empty
                 /\ uuidCount = 6
            ELSE /\ files = filesA
                 /\ jobs = jobsA
                 /\ tasks = tasksA
                 /\ ytJobs = Empty
                 /\ ytTasks = With(Empty, Uuid(3), [pc |-> "info", url |-> "https://youtu.be/abc",
                                                    format |-> second])
                 /\ uuidCount = 4

\* what the server does with the two jobs, no further job being submitted
PairNext ==
    \/ \E req \in ConvRequests : ConvSubmitNoFile(req)
    \/ \E j \in DOMAIN tasks, outcome \in {"ok", "nofile", "fail"}, unlinkFails \in BOOLEAN :
           ConvSettle(j, outcome, unlinkFails)
    \/ \E id \in DOMAIN jobs \cup {UnknownId} : ConvStatus(id)
    \/ \E filename \in RequestedNames : ConvDownload(filename)
    \/ \E req \in YtRequests : YtSubmitInvalid(req)
    \/ \E j \in DOMAIN ytTasks, info \in VideoInfos : YtInfoDone(j, info)
    \/ \E j \in DOMAIN ytTasks, info \in VideoInfos : YtTitleDone(j, info)
    \/ \E j \in DOMAIN ytTasks, exit \in ExitCodes, stderr \in Stderrs :
           YtDownloadDone(j, exit, stderr)
    \/ \E j \in DOMAIN ytTasks, exit \in ExitCodes, stderr \in Stderrs :
           YtVideoDone(j, exit, stderr)
    \/ \E j \in DOMAIN ytTasks, exit \in ExitCodes, stderr \in Stderrs,
          unlinkError \in UnlinkMessages \cup {Undefined} :
           YtAudioDone(j, exit, stderr, unlinkError)
    \/ \E id \in DOMAIN ytJobs \cup {UnknownId} : YtStatus(id)
    \/ \E filename \in RequestedNames : YtFile(filename)
    \/ \E errs \in SUBSET DOMAIN files : Tick(errs)
    \/ \E errs \in SUBSET DOMAIN files : Shutdown(errs)

PairSpec == PairInit /\ [][PairNext]_vars

\* the records of the two registries, by job id
AllJobs ==
    [j \in DOMAIN jobs \cup DOMAIN ytJobs |->
        IF j \in DOMAIN jobs THEN jobs[j] ELSE ytJobs[j]]

\* C16: a step in which the status of one job changes leaves the record of
\* every other job of either registry as it was.
NoCrossJobInterference ==
    [][alive' =>
          \A k \in DOMAIN AllJobs :
              AllJobs'[k].status /= AllJobs[k].status =>
                  \A j \in DOMAIN AllJobs \ {k} : AllJobs'[j] = AllJobs[j]]_vars

\* one of the two jobs is terminal and the other is still processing
NoCrossJobInterferenceWitness ==
    \E j, k \in DOMAIN AllJobs :
        /\ j /= k
        /\ AllJobs[k].status \in Terminal
        /\ AllJobs[j].status = "processing"

---------------------------------------------------------------------------
(* generated filenames *)

\* every artifact the jobs have named: the staged input of a conversion, the
\* file soffice is asked to write, the output of a strategy
Artifacts ==
    {[job |-> j, role |-> "input", path |-> jobs[j].inputPath] : j \in DOMAIN jobs}
    \cup {[job |-> j, role |-> "intermediate", path |-> libreOutputPath(tasks[j].inputPath)] :
            j \in {k \in DOMAIN tasks : tasks[k].type = "docx-to-pdf"}}
    \cup {[job |-> j, role |-> "output", path |-> PathJoin(tempDir, tasks[j].outputFileName)] :
            j \in {k \in DOMAIN tasks : tasks[k].type \in SwitchCases}}
    \cup {[job |-> j, role |-> "output", path |-> jobs[j].outputPath] :
            j \in {k \in DOMAIN jobs : Present(jobs[k], "outputPath")}}
    \cup {[job |-> j, role |-> "output", path |-> ytJobs[j].outputPath] :
            j \in {k \in DOMAIN ytJobs : Present(ytJobs[k], "outputPath")}}
    \cup {[job |-> j, role |-> "audio", path |-> ytJobs[j].audioPath] :
            j \in {k \in DOMAIN ytJobs : Present(ytJobs[k], "audioPath")}}

\* C21: no two artifacts (staged inputs, outputs, the intermediate file of the
\* document conversion) have the same filename.
NamesNeverReused ==
    \A a, b \in Artifacts : a /= b => a.path /= b.path

---------------------------------------------------------------------------
(* the second download URL *)

\* C28: a record has an audioDownloadUrl only if its format is separate and
\* its status completed; a completed separate record has a downloadUrl and an
\* audioDownloadUrl, which (like its outputPath and audioPath) are different;
\* the poll of a record returns the audioDownloadUrl the record has.
AudioUrlOnlySeparate ==
    /\ \A j \in DOMAIN jobs : ~Present(jobs[j], "audioDownloadUrl")
    /\ \A j \in DOMAIN ytJobs :
           /\ Present(ytJobs[j], "audioDownloadUrl")
                  => ytJobs[j].format = "separate" /\ ytJobs[j].status = "completed"
           /\ (ytJobs[j].format = "separate" /\ ytJobs[j].status = "completed")
                  => /\ Present(ytJobs[j], "downloadUrl")
                     /\ Present(ytJobs[j], "audioDownloadUrl")
                     /\ ytJobs[j].downloadUrl /= ytJobs[j].audioDownloadUrl
                     /\ ytJobs[j].outputPath /= ytJobs[j].audioPath
           /\ YtStatusResponse(j).body.audioDownloadUrl = Get(ytJobs[j], "audioDownloadUrl")

\* a separate download is completed and its poll carries two URLs
AudioUrlOnlySeparateWitness ==
    \E j \in DOMAIN ytJobs :
        /\ ytJobs[j].format = "separate"
        /\ ytJobs[j].status = "completed"
        /\ NamesFile("/api/youtube/file/", YtStatusResponse(j).body.downloadUrl)
        /\ NamesFile("/api/youtube/file/", YtStatusResponse(j).body.audioDownloadUrl)

---------------------------------------------------------------------------
(* the periodic sweep and the sweep of the shutdown *)

\* the timer fires and the sweep it runs is one in which an unlink fails
FailingSweep == \E errs \in SUBSET DOMAIN files : errs /= {} /\ Tick(errs)

\* no file was last modified longer ago than the threshold plus the time since
\* the last sweep
WithinTwoIntervals(fs, m) == \A f \in DOMAIN fs : fs[f] <= cleanupIntervalMinutes + m

\* C24: the timer runs a sweep at every multiple of the interval; a sweep in
\* which no deletion fails leaves no file older than the threshold, so a file
\* is deleted by the first sweep after its age exceeded the threshold; and as
\* long as no deletion fails, no file of the directory was last modified two
\* intervals ago or longer.
DeletedByFirstSweep ==
    [][/\ (alive /\ minute' /= minute) => minute' = (minute + 1) % cleanupIntervalMinutes
       /\ (Tick({}) /\ minute' = 0)
              => \A f \in DOMAIN files' :
                     AgeMs(files', f) <= cleanupIntervalMinutes * 60 * 1000
       /\ (WithinTwoIntervals(files, minute) /\ ~FailingSweep)
              => /\ WithinTwoIntervals(files', minute')
                 /\ \A f \in DOMAIN files' : files'[f] < 2 * cleanupIntervalMinutes]_vars

\* the output of a completed download has been deleted by a sweep, and every
\* file that is left is younger than two intervals
DeletedByFirstSweepWitness ==
    /\ alive
    /\ WithinTwoIntervals(files, minute)
    /\ \E j \in DOMAIN ytJobs :
           /\ ytJobs[j].status = "completed"
           /\ ~existsSync(files, ytJobs[j].outputPath)

\* C25: the step in which the process exits sweeps the directory with the
\* threshold of the periodic sweep: it deletes only files older than the
\* threshold, every one of them when no unlink fails, and the files that are
\* not older are on disk, unchanged, after the exit; nothing changes on disk
\* once the process has exited.
ShutdownSweeps ==
    [][/\ (alive /\ ~alive')
              => /\ \A f \in DOMAIN files \ Expired(files) :
                        f \in DOMAIN files' /\ files'[f] = files[f]
                 /\ DOMAIN files' \subseteq DOMAIN files
                 /\ Shutdown({}) => DOMAIN files' = DOMAIN files \ Expired(files)
                 /\ files' = cleanupTempFiles(files, DOMAIN files' \cap Expired(files))
       /\ ~alive => (alive' = alive /\ files' = files)]_vars

\* the process has exited and a file not older than the threshold is on disk
ShutdownSweepsWitness ==
    /\ ~alive
    /\ \E f \in DOMAIN files : AgeMs(files, f) <= cleanupIntervalMinutes * 60 * 1000
    /\ Expired(files) = {}

---------------------------------------------------------------------------
(* utils/cleanup.ts: the sweep, entry by entry *)

\* the names a directory listing can hold
EntryNames == {"u0.png", "u1.jpg"}

\* fs.readdirSync(tempDir): the names of a directory, in the order of the listing
readdirSync(fs) ==
    CHOOSE list \in [1..Cardinality(DOMAIN fs) -> DOMAIN fs] :
        \A i, k \in DOMAIN list : i /= k => list[i] /= list[k]

\* the body of the loop with no catch around it: a throwing call ends the loop
sweepEntry_NoCatch(fs, dirs, file, statErrs, unlinkErrs) ==
    IF file \in statErrs
    THEN [fs |-> fs, threw |-> TRUE]
    ELSE IF file \in dirs
         THEN [fs |-> fs, threw |-> FALSE]
         ELSE IF file \in Expired(fs)
              THEN IF file \in unlinkErrs
                   THEN [fs |-> fs, threw |-> TRUE]
                   ELSE [fs |-> unlinkSync(fs, PathJoin(tempDir, file)), threw |-> FALSE]
              ELSE [fs |-> fs, threw |-> FALSE]

\* the body of the loop that unlinks whatever is old, directories included
sweepEntry_NoSkip(fs, dirs, file, statErrs, unlinkErrs) ==
    IF file \in statErrs
    THEN [fs |-> fs, threw |-> FALSE]
    ELSE IF file \in Expired(fs)
         THEN IF file \in unlinkErrs
              THEN [fs |-> fs, threw |-> FALSE]
              ELSE [fs |-> unlinkSync(fs, PathJoin(tempDir, file)), threw |-> FALSE]
         ELSE [fs |-> fs, threw |-> FALSE]

\* the body of the loop for one entry: fs.statSync throws for the entries of
\* statErrs, fs.unlinkSync for those of unlinkErrs; `dirs` are the entries
\* stats.isDirectory() is true of.  Both catch blocks log and go on.
sweepEntry(fs, dirs, file, statErrs, unlinkErrs) ==
    IF file \in statErrs
    THEN [fs |-> fs, threw |-> FALSE]
    ELSE IF file \in dirs
         THEN [fs |-> fs, threw |-> FALSE]
         ELSE IF file \in Expired(fs)
              THEN IF file \in unlinkErrs
                   THEN [fs |-> fs, threw |-> FALSE]
                   ELSE [fs |-> unlinkSync(fs, PathJoin(tempDir, file)), threw |-> FALSE]
              ELSE [fs |-> fs, threw |-> FALSE]

\* for (const file of files): an exception leaving the body ends the loop
RECURSIVE sweepLoop(_, _, _, _, _)
sweepLoop(fs, dirs, list, statErrs, unlinkErrs) ==
    IF list = <<>>
    THEN [fs |-> fs, threw |-> FALSE]
    ELSE LET done == sweepEntry(fs, dirs, Head(list), statErrs, unlinkErrs)
         IN  IF done.threw
             THEN done
             ELSE sweepLoop(done.fs, dirs, Tail(list), statErrs, unlinkErrs)

\* cleanupTempFiles() on a directory that holds sub-directories too: the
\* directory afterwards, and whether the promise it returns is rejected
cleanupEntries(fs, dirs, readdirFails, statErrs, unlinkErrs) ==
    IF readdirFails
    THEN [fs |-> fs, rejected |-> FALSE]
    ELSE [fs |-> sweepLoop(fs, dirs, readdirSync(fs), statErrs, unlinkErrs).fs,
          rejected |-> FALSE]

\* the sweeps applied: every directory of at most two entries, each a file or a
\* sub-directory of any age, with any of the calls made on them throwing
CleanupCalls ==
    {[fn |-> "cleanupTempFiles", fs |-> fs, dirs |-> dirs, readdirFails |-> rf,
      statErrs |-> se, unlinkErrs |-> ue] :
        fs \in UNION {[names -> 0..MaxAge] : names \in SUBSET EntryNames},
        dirs \in SUBSET EntryNames, rf \in BOOLEAN,
        se \in SUBSET EntryNames, ue \in SUBSET EntryNames}

IsCleanupCall(c) ==
    /\ c.fn = "cleanupTempFiles"
    /\ c.dirs \subseteq DOMAIN c.fs
    /\ c.statErrs \subseteq DOMAIN c.fs
    /\ c.unlinkErrs \subseteq DOMAIN c.fs

CleanupApply ==
    /\ call.fn = "cleanupTempFiles"
    /\ reply = NoCall
    /\ reply' = cleanupEntries(call.fs, call.dirs, call.readdirFails,
                               call.statErrs, call.unlinkErrs)
    /\ UNCHANGED <<alive, minute, files, jobs, tasks, ytJobs, ytTasks, uuidCount,
                   rejected, errorLog, call>>

\* a sweep has been applied
Swept == call.fn = "cleanupTempFiles" /\ reply /= NoCall

\* the regular files of the directory swept that are older than the threshold
OldFiles == Expired(call.fs) \ call.dirs

NoSweepFailure ==
    ~call.readdirFails /\ call.statErrs = {} /\ call.unlinkErrs = {}

\* C22: a sweep leaves every sub-directory and every file whose age is at most
\* the threshold in place, unchanged, adds nothing, and when no call of it fails
\* it deletes exactly the regular files older than the threshold; on a directory
\* of files only it is the sweep of the server's timer.
SweepDeletesExactlyOld ==
    Swept =>
        /\ \A f \in DOMAIN call.fs \ OldFiles :
               f \in DOMAIN reply.fs /\ reply.fs[f] = call.fs[f]
        /\ DOMAIN reply.fs \subseteq DOMAIN call.fs
        /\ NoSweepFailure => DOMAIN reply.fs = DOMAIN call.fs \ OldFiles
        /\ (call.dirs = {} /\ ~call.readdirFails)
               => reply.fs = cleanupTempFiles(call.fs, call.statErrs \cup call.unlinkErrs)

\* a sweep without failure has deleted an old file and kept an old sub-directory
SweepDeletesExactlyOldWitness ==
    /\ Swept
    /\ NoSweepFailure
    /\ \E f \in OldFiles : f \notin DOMAIN reply.fs
    /\ \E d \in call.dirs \cap Expired(call.fs) : d \in DOMAIN reply.fs

\* C23: whatever calls of a sweep throw, the promise of the sweep is not
\* rejected, and when the listing itself was read every old regular file whose
\* own stat and unlink did not throw is deleted.
SweepIsolatesErrors ==
    Swept =>
        /\ ~reply.rejected
        /\ ~call.readdirFails =>
               \A f \in OldFiles \ (call.statErrs \cup call.unlinkErrs) :
                   f \notin DOMAIN reply.fs

\* the unlink of one old file threw, the file is still there, and the other
\* old file is deleted
SweepIsolatesErrorsWitness ==
    /\ Swept
    /\ ~call.readdirFails
    /\ \E f \in OldFiles \cap call.unlinkErrs, g \in OldFiles :
           /\ f /= g
           /\ f \in DOMAIN reply.fs
           /\ g \notin DOMAIN reply.fs

---------------------------------------------------------------------------
(* utils/cleanup.ts: deleteFile *)

\* deleteFile applied to a path of the temporary directory, in every directory
\* of at most two files, with fs.unlinkSync throwing or not
DeleteCalls ==
    {[fn |-> "deleteFile", fs |-> fs, path |-> PathJoin(tempDir, n), fails |-> fails] :
        fs \in UNION {[names -> 0..MaxAge] : names \in SUBSET EntryNames},
        n \in EntryNames, fails \in BOOLEAN}

DeleteApply ==
    /\ call.fn = "deleteFile"
    /\ reply = NoCall
    /\ reply' = deleteFile(call.fs, call.path, call.fails)
    /\ UNCHANGED <<alive, minute, files, jobs, tasks, ytJobs, ytTasks, uuidCount,
                   rejected, errorLog, call>>

\* deleteFile has returned
Deleted == call.fn = "deleteFile" /\ reply /= NoCall

\* C26: deleteFile returns a boolean: true exactly when a file was at the path
\* and the call removed it (that file and no other); when no file is there or
\* the unlink throws it returns false and the directory is as it was; a second
\* call on the path after one that returned true returns false.
DeleteFileReturns ==
    Deleted =>
        LET existed == existsSync(call.fs, call.path)
        IN  /\ reply.ret \in BOOLEAN
            /\ reply.ret <=> (existed /\ ~existsSync(reply.fs, call.path))
            /\ reply.ret <=> (existed /\ ~call.fails)
            /\ ~reply.ret => reply.fs = call.fs
            /\ reply.ret =>
                   reply.fs = [f \in DOMAIN call.fs \ {EntryOf(call.fs, call.path)} |-> call.fs[f]]
            /\ reply.ret =>
                   \A fails \in BOOLEAN :
                       LET second == deleteFile(reply.fs, call.path, fails)
                       IN  ~second.ret /\ second.fs = reply.fs

\* deleteFile removed one of two files and returned true
DeleteFileReturnsWitness ==
    /\ Deleted
    /\ reply.ret
    /\ DOMAIN reply.fs /= {}
    /\ ~existsSync(reply.fs, call.path)

---------------------------------------------------------------------------
(* middleware/auth.ts *)

\* a value of the environment variable API_KEY
Secret == "s3cret"

\* config.apiKey: process.env.API_KEY || ''
ConfiguredKeys == {"", Secret}

\* what a request carries in the x-api-key header or the apiKey parameter
SuppliedKeys == {Undefined, "", Secret, "wrong"}

\* next(): the request goes on to the route handlers
Admit == [next |-> TRUE]

\* res.status(code).json(...) without next(): no route handler runs
Reject(code, error, message) ==
    [next |-> FALSE, response |-> Response(code, ErrorBody(error, message))]

\* an authMiddleware that reads the header only
authMiddleware_HeaderOnly(apiKeyConfig, apiKeyHeader, apiKeyQuery) ==
    IF ~Truthy(apiKeyConfig)
    THEN Admit
    ELSE IF ~Truthy(apiKeyHeader)
         THEN Reject(401, "Unauthorized",
                     "API key is required. Send it via x-api-key header or apiKey query parameter.")
         ELSE IF apiKeyHeader /= apiKeyConfig
              THEN Reject(403, "Forbidden", "Invalid API key.")
              ELSE Admit

\* authMiddleware(req, res, next) with config.apiKey = apiKeyConfig
authMiddleware(apiKeyConfig, apiKeyHeader, apiKeyQuery) ==
    IF ~Truthy(apiKeyConfig)
    THEN Admit
    ELSE LET apiKey == OrElse(apiKeyHeader, apiKeyQuery)
         IN  IF ~Truthy(apiKey)
             THEN Reject(401, "Unauthorized",
                         "API key is required. Send it via x-api-key header or apiKey query parameter.")
             ELSE IF apiKey /= apiKeyConfig
                  THEN Reject(403, "Forbidden", "Invalid API key.")
                  ELSE Admit

AuthCalls ==
    {[fn |-> "authMiddleware", config |-> c, header |-> h, query |-> q] :
        c \in ConfiguredKeys, h \in SuppliedKeys, q \in SuppliedKeys}

AuthApply ==
    /\ call.fn = "authMiddleware"
    /\ reply = NoCall
    /\ reply' = authMiddleware(call.config, call.header, call.query)
    /\ UNCHANGED <<alive, minute, files, jobs, tasks, ytJobs, ytTasks, uuidCount,
                   rejected, errorLog, call>>

\* authMiddleware has run on a request
Authed == call.fn = "authMiddleware" /\ reply /= NoCall

EffectiveKey(c) == IF c.header \notin {Undefined, ""} THEN c.header ELSE c.query

---------------------------------------------------------------------------
(* routes/qrcode.ts *)

\* the longest content POST /generate hands to the generator
MaxContentLength == 2000

\* req.body.url, by what the handler reads of it: whether it is there, and its
\* length
QrUrls ==
    {[present |-> FALSE, length |-> 0]}
    \cup {[present |-> TRUE, length |-> n] :
            n \in {0, 1, 2, MaxContentLength - 1, MaxContentLength,
                   MaxContentLength + 1, MaxContentLength + 2}}

\* what QRCode.toDataURL does: it resolves with a data URL or it throws
QrOutcomes == {"ok", "fail"}

QrErrorMessage == "The amount of data is too big to be stored in a QR Code"

\* generateQRCode(content, options): the result it resolves with
generateQRCode(url, outcome) ==
    IF outcome = "ok"
    THEN [success |-> TRUE, dataUrl |-> "data:image/png;base64,iVBORw0KGgo="]
    ELSE [success |-> FALSE, error |-> QrErrorMessage]

\* the handler with >= for the > of the length test
qrGenerate_AtLeast(url, outcome) ==
    IF ~url.present \/ url.length = 0
    THEN [generated |-> FALSE,
          response |-> Response(400, ErrorBody("Bad Request", "Content/URL is required"))]
    ELSE IF url.length >= MaxContentLength
         THEN [generated |-> FALSE,
               response |-> Response(400, ErrorBody("Bad Request",
                                "Content too long. Maximum 2000 characters."))]
         ELSE LET result == generateQRCode(url, outcome)
              IN  [generated |-> TRUE,
                   response |->
                       IF result.success /\ Truthy(Get(result, "dataUrl"))
                       THEN Response(200, [dataUrl |-> result.dataUrl])
                       ELSE Response(500, ErrorBody("Internal Server Error",
                                OrElse(Get(result, "error"), "QR code generation failed")))]

\* POST /generate: the response, and whether generateQRCode was called
qrGenerate(url, outcome) ==
    IF ~url.present \/ url.length = 0
    THEN [generated |-> FALSE,
          response |-> Response(400, ErrorBody("Bad Request", "Content/URL is required"))]
    ELSE IF url.length > MaxContentLength
         THEN [generated |-> FALSE,
               response |-> Response(400, ErrorBody("Bad Request",
                                "Content too long. Maximum 2000 characters."))]
         ELSE LET result == generateQRCode(url, outcome)
              IN  [generated |-> TRUE,
                   response |->
                       IF result.success /\ Truthy(Get(result, "dataUrl"))
                       THEN Response(200, [dataUrl |-> result.dataUrl])
                       ELSE Response(500, ErrorBody("Internal Server Error",
                                OrElse(Get(result, "error"), "QR code generation failed")))]

QrCalls ==
    {[fn |-> "qrGenerate", url |-> url, outcome |-> outcome] :
        url \in QrUrls, outcome \in QrOutcomes}

QrApply ==
    /\ call.fn = "qrGenerate"
    /\ reply = NoCall
    /\ reply' = qrGenerate(call.url, call.outcome)
    /\ UNCHANGED <<alive, minute, files, jobs, tasks, ytJobs, ytTasks, uuidCount,
                   rejected, errorLog, call>>

\* C30: POST /generate answers content longer than 2000 characters with the
\* 400 validation error, without calling the generator; content of 1 to 2000
\* characters passes the validation: the generator is called and the answer is
\* 200 with its data URL (500 only when the generator itself throws); the step
\* changes no job record, no task and no file.
QrValidatesLength ==
    [][call.fn = "qrGenerate" =>
          /\ call.url.length > 2000 =>
                 /\ ~reply'.generated
                 /\ reply'.response = Response(400, ErrorBody("Bad Request",
                                          "Content too long. Maximum 2000 characters."))
          /\ (call.url.present /\ call.url.length \in 1..2000) =>
                 /\ reply'.generated
                 /\ reply'.response.code /= 400
                 /\ call.outcome = "ok" =>
                        /\ reply'.response.code = 200
                        /\ Truthy(reply'.response.body.dataUrl)
                 /\ reply'.response.code /= 200 =>
                        call.outcome = "fail" /\ reply'.response.code = 500
          /\ UNCHANGED <<jobs, ytJobs, tasks, ytTasks, files, uuidCount>>]_vars

\* content of exactly 2000 characters has been answered with a QR code
QrValidatesLengthWitness ==
    /\ call.fn = "qrGenerate"
    /\ reply /= NoCall
    /\ call.url.length = 2000
    /\ reply.response.code = 200

---------------------------------------------------------------------------
(* services/youtubeService.ts: parseYtDlpError *)

\* the pieces diagnostic texts are put together from
Fragments ==
    {<<"ERROR:">>, <<" ">>, <<Newline>>, <<" ", Newline>>, <<"timeout">>,
     <<"Video", " ", "unavailable">>, <<"PRIVATE", " ", "VIDEO">>,
     <<"age-restricted">>, <<"Sign", " ", "in">>,
     <<"copyright">>, <<"Blocked">>,
     <<"does", " ", "not", " ", "exist">>, <<"removed">>,
     <<"live", " ", "event">>, <<"Premiere">>,
     <<"yt-dlp">>, <<"FFmpeg">>, <<"not", " ", "found">>,
     <<"Unable", " ", "to", " ", "extract">>, <<"extractor", " ", "error">>}

\* the texts of at most two pieces
DiagnosticTexts ==
    {<<>>} \cup Fragments \cup {a \o b : a \in Fragments, b \in Fragments}

ParseCalls == {[fn |-> "parseYtDlpError", stderr |-> text] : text \in DiagnosticTexts}

ParseApply ==
    /\ call.fn = "parseYtDlpError"
    /\ reply = NoCall
    /\ reply' = [ret |-> parseYtDlpError(call.stderr)]
    /\ UNCHANGED <<alive, minute, files, jobs, tasks, ytJobs, ytTasks, uuidCount,
                   rejected, errorLog, call>>

\* the rules of the classification, first to last: the lower-case patterns of
\* a rule, whether one of them or all of them must occur, and its cause
Rules ==
    <<[need |-> "any", cause |-> "Video is unavailable or private",
       patterns |-> {<<"video", " ", "unavailable">>, <<"private", " ", "video">>}],
      [need |-> "any", cause |-> "Video is age-restricted and requires sign-in",
       patterns |-> {<<"age-restricted">>, <<"sign", " ", "in">>}],
      [need |-> "any", cause |-> "Video is blocked due to copyright",
       patterns |-> {<<"copyright">>, <<"blocked">>}],
      [need |-> "any", cause |-> "Video does not exist or has been removed",
       patterns |-> {<<"does", " ", "not", " ", "exist">>, <<"removed">>}],
      [need |-> "any", cause |-> "Cannot download live events or premieres",
       patterns |-> {<<"live", " ", "event">>, <<"premiere">>}],
      [need |-> "all",
       cause |-> "yt-dlp is not installed. Please install it: https://github.com/yt-dlp/yt-dlp",
       patterns |-> {<<"yt-dlp">>, <<"not", " ", "found">>}],
      [need |-> "all", cause |-> "FFmpeg is not installed or not in PATH",
       patterns |-> {<<"ffmpeg">>, <<"not", " ", "found">>}],
      [need |-> "any",
       cause |-> "YouTube extractor error - yt-dlp may need updating. Run: yt-dlp -U",
       patterns |-> {<<"unable", " ", "to", " ", "extract">>, <<"extractor", " ", "error">>}]>>

\* the rules a text matches when upper and lower case are not told apart
Matching(text) ==
    {i \in DOMAIN Rules :
        IF Rules[i].need = "any"
        THEN \E p \in Rules[i].patterns : includes(toLowerCase(text), p)
        ELSE \A p \in Rules[i].patterns : includes(toLowerCase(text), p)}

\* the lines of a text that hold something other than blanks
InkedLines(text) ==
    {i \in DOMAIN split(text) : \E k \in DOMAIN split(text)[i] :
                                    split(text)[i][k] \notin Whitespace}

\* parseYtDlpError has returned
Parsed == call.fn = "parseYtDlpError" /\ reply /= NoCall

\* C29: the result is the cause of the earliest rule the text matches without
\* regard to case; when it matches none, the first line of the text that is
\* not blank, as written; when every line is blank, the generic message; and
\* it is never the empty string.
ClassifiedByFirstRule ==
    Parsed =>
        LET matching == Matching(call.stderr)
            inked == InkedLines(call.stderr)
        IN  /\ matching /= {}
                => reply.ret = Rules[CHOOSE i \in matching : \A k \in matching : i <= k].cause
            /\ (matching = {} /\ inked /= {})
                => reply.ret = Str(split(call.stderr)[CHOOSE i \in inked :
                                                          \A k \in inked : i <= k])
            /\ (matching = {} /\ inked = {})
                => reply.ret = "Download failed - unknown error"
            /\ reply.ret /= ""

\* a text in capitals that matches two rules has been given the cause of the
\* earlier one
ClassifiedByFirstRuleWitness ==
    /\ Parsed
    /\ Cardinality(Matching(call.stderr)) = 2
    /\ call.stderr /= toLowerCase(call.stderr)
    /\ 3 \in Matching(call.stderr)
    /\ reply.ret = "Video is blocked due to copyright"

---------------------------------------------------------------------------
(* routes/convert.ts, routes/youtube.ts: the path of a download *)

\* path.resolve(config.tempDir), segment by segment
tempSegments == <<"temp">>

\* the files on the disk of the server, inside and outside the temporary
\* directory, as absolute paths
DiskFiles == {<<"temp", "u2.jpg">>, <<"etc", "passwd">>, <<"app", "package.json">>}

\* the :filename segment of a request URL, as the client wrote it: it holds no
\* "/" (the router would not match it), but it can hold an encoded one
FilenameParams ==
    {<<"u2.jpg">>, <<"u9.jpg">>,
     <<"..", "%2F", "etc", "%2F", "passwd">>,
     <<"%2E%2E", "%2F", "app", "%2F", "package.json">>,
     <<"..", "%2F", "temp", "%2F", "u2.jpg">>,
     <<"..", "%2F", "..", "%2F", "etc", "%2F", "passwd">>,
     <<"..">>}

\* decodeURIComponent, which express applies to a route parameter
decodeURIComponent(param) ==
    [i \in DOMAIN param |-> CASE param[i] = "%2F" -> "/"
                              [] param[i] = "%2E%2E" -> ".."
                              [] OTHER -> param[i]]

\* the segments of a decoded parameter, "/" being the separator
segmentsOf(text) == SelectSeq(text, LAMBDA t : t /= "/")

\* path.normalize on an absolute path: ".." drops the segment before it
RECURSIVE normalize(_, _)
normalize(done, rest) ==
    IF rest = <<>>
    THEN done
    ELSE IF Head(rest) = ".."
         THEN normalize(IF done = <<>> THEN done ELSE SubSeq(done, 1, Len(done) - 1),
                        Tail(rest))
         ELSE IF Head(rest) = "."
              THEN normalize(done, Tail(rest))
              ELSE normalize(Append(done, Head(rest)), Tail(rest))

\* path.join(tempDir, filename)
joinSegments(dir, filename) == normalize(dir, segmentsOf(filename))

\* res.download(filePath, callback): the file is sent, or the callback answers 404
resDownload(disk, filePath) ==
    IF filePath \in disk
    THEN [code |-> 200, sent |-> filePath]
    ELSE [code |-> 404, sent |-> <<>>]

\* GET /download/:filename and GET /file/:filename
downloadRoute(disk, param) ==
    LET filename == decodeURIComponent(param)
        filePath == joinSegments(tempSegments, filename)
    IN  resDownload(disk, filePath)

DownloadCalls ==
    {[fn |-> "download", disk |-> disk, param |-> param] :
        disk \in SUBSET DiskFiles, param \in FilenameParams}

DownloadApply ==
    /\ call.fn = "download"
    /\ reply = NoCall
    /\ reply' = downloadRoute(call.disk, call.param)
    /\ UNCHANGED <<alive, minute, files, jobs, tasks, ytJobs, ytTasks, uuidCount,
                   rejected, errorLog, call>>

\* the path is that of a file directly inside the temporary directory
InsideTempDir(filePath) ==
    /\ Len(filePath) = Len(tempSegments) + 1
    /\ SubSeq(filePath, 1, Len(tempSegments)) = tempSegments

\* C31: whatever filename parameter the client sends, a download that sends a
\* file sends one of the temporary directory.
ServesOnlyTempDir ==
    (call.fn = "download" /\ reply /= NoCall /\ reply.code = 200)
        => InsideTempDir(reply.sent)

---------------------------------------------------------------------------
(* start-up: the environment is validated before the server listens *)

\* values of process.env.NODE_ENV, process.env.API_KEY, process.env.CORS_ORIGIN
NodeEnvs == {Undefined, "development", "production"}

EnvKeys == {Undefined, "", Secret}

CorsOrigins == {Undefined, "http://localhost:5173"}

Envs ==
    {[NODE_ENV |-> n, API_KEY |-> k, CORS_ORIGIN |-> o] :
        n \in NodeEnvs, k \in EnvKeys, o \in CorsOrigins}

\* a validateEnv that only warns
validateEnv_WarnOnly(env) ==
    [exit |-> FALSE, errors |-> {}]

\* validateEnv(): the errors it collects, and whether it calls process.exit(1)
validateEnv(env) ==
    LET errors ==
            IF env.NODE_ENV = "production"
            THEN (IF ~Truthy(env.API_KEY)
                  THEN {"API_KEY is required in production mode"} ELSE {})
                 \cup
                 (IF ~Truthy(env.CORS_ORIGIN)
                  THEN {"CORS_ORIGIN is required in production mode"} ELSE {})
            ELSE {}
    IN  [exit |-> errors /= {}, errors |-> errors]

\* config.apiKey and config.nodeEnv
configOf(env) ==
    [apiKey |-> OrElse(env.API_KEY, ""),
     nodeEnv |-> OrElse(env.NODE_ENV, "development")]

\* the process is started with env and, if it gets to listen, receives one
\* request under /api: validateEnv runs while config/index.js is loaded,
\* before the app is built, and authMiddleware is mounted on /api ahead of
\* the routes
boot(env, apiKeyHeader, apiKeyQuery) ==
    IF validateEnv(env).exit
    THEN [exited |-> TRUE, code |-> 1]
    ELSE [exited |-> FALSE,
          auth |-> authMiddleware(configOf(env).apiKey, apiKeyHeader, apiKeyQuery)]

BootCalls ==
    {[fn |-> "boot", env |-> e, header |-> h, query |-> q] :
        e \in Envs, h \in SuppliedKeys, q \in SuppliedKeys}

BootApply ==
    /\ call.fn = "boot"
    /\ reply = NoCall
    /\ reply' = boot(call.env, call.header, call.query)
    /\ UNCHANGED <<alive, minute, files, jobs, tasks, ytJobs, ytTasks, uuidCount,
                   rejected, errorLog, call>>

\* the process has been started in production
BootedInProduction ==
    call.fn = "boot" /\ reply /= NoCall /\ call.env.NODE_ENV = "production"

\* C38: started in production without an API key the process exits before it
\* serves a request; started in production and serving, a secret is configured
\* and a request under /api is admitted only if the key it supplies is that
\* secret.
BypassOnlyOutsideProduction ==
    BootedInProduction =>
        /\ ~Truthy(call.env.API_KEY) => reply.exited
        /\ ~reply.exited =>
              /\ Truthy(configOf(call.env).apiKey)
              /\ reply.auth.next =>
                    /\ EffectiveKey(call) = call.env.API_KEY
                    /\ call.header = call.env.API_KEY \/ call.query = call.env.API_KEY

\* started in production with a CORS origin and an empty API key, the process
\* has exited with the one error about the key
BypassOnlyOutsideProductionWitness ==
    /\ BootedInProduction
    /\ call.env.API_KEY = ""
    /\ Truthy(call.env.CORS_ORIGIN)
    /\ reply.exited
    /\ validateEnv(call.env).errors = {"API_KEY is required in production mode"}

---------------------------------------------------------------------------
(* the client: a status poll and its retries *)

\* how many outcomes of the underlying request are scripted
MaxRequests == 5

\* retries: number = 3, delay: number = 1000
DefaultRetries == 3

DefaultDelay == 1000

\* what axios makes of one GET of a status endpoint: a response with a
\* status, or a request that received no response, with axios's error code
Outcomes ==
    {[response |-> TRUE, status |-> s] : s \in {200, 404, 500}}
    \cup {[response |-> FALSE, code |-> c] : c \in {"ECONNABORTED", "ERR_NETWORK", "ERR_BAD_RESPONSE"}}

\* the response interceptor: the message of the Error it throws
interceptError(error) ==
    IF error.response
    THEN CASE error.status = 404 ->
                  <<"Endpoint", " ", "not", " ", "found", ".">>
           [] error.status = 500 ->
                  <<"Server", " ", "error", ".", " ", "Please", " ", "try", " ",
                    "again", " ", "later", ".">>
           [] OTHER -> <<"An", " ", "error", " ", "occurred">>
    ELSE CASE error.code = "ECONNABORTED" ->
                  <<"Request", " ", "timed", " ", "out", ".">>
           [] error.code = "ERR_NETWORK" ->
                  <<"Cannot", " ", "connect", " ", "to", " ", "server", ".">>
           [] OTHER ->
                  <<"Network", " ", "error", ".">>

\* fn(): api.get(...) through the interceptor, then response.data
request(outcome) ==
    IF outcome.response /\ outcome.status = 200
    THEN [ok |-> TRUE, value |-> <<"job">>]
    ELSE [ok |-> FALSE, value |-> interceptError(outcome)]

\* an isRetryable that holds of every error
isRetryable_Always(message) == TRUE

\* error.message.includes(...) of one of the three transient patterns
isRetryable(message) ==
    \/ includes(message, <<"Network", " ", "error">>)
    \/ includes(message, <<"Cannot", " ", "connect">>)
    \/ includes(message, <<"timed", " ", "out">>)

\* retryRequest(fn, retries, delay), fn's calls answered by outcomes from
\* position at on: how the promise settles, how many times fn has been called
\* by then, and the delays waited
RECURSIVE retryRequest(_, _, _, _)
retryRequest(outcomes, at, retries, delay) ==
    LET done == request(outcomes[at])
    IN  IF done.ok
        THEN [settled |-> "resolved", value |-> done.value, calls |-> at, waited |-> <<>>]
        ELSE IF retries > 0 /\ isRetryable(done.value)
             THEN LET later == retryRequest(outcomes, at + 1, retries - 1, delay * 2)
                  IN  [later EXCEPT !.waited = <<delay>> \o @]
             ELSE [settled |-> "rejected", value |-> done.value, calls |-> at,
                   waited |-> <<>>]

\* pollConversionStatus(jobId), pollYouTubeStatus(jobId)
pollStatus(outcomes) == retryRequest(outcomes, 1, DefaultRetries, DefaultDelay)

PollCalls ==
    {[fn |-> "pollStatus", outcomes |-> o] : o \in [1..MaxRequests -> Outcomes]}

PollApply ==
    /\ call.fn = "pollStatus"
    /\ reply = NoCall
    /\ reply' = pollStatus(call.outcomes)
    /\ UNCHANGED <<alive, minute, files, jobs, tasks, ytJobs, ytTasks, uuidCount,
                   rejected, errorLog, call>>

\* the request received no response: a network error, no connection, a timeout
Transient(outcome) == ~outcome.response

\* C39: a status poll calls the request at most 4 times; it calls it again
\* only after a call that failed transiently, so every call but the last one
\* failed transiently; it settles with the outcome of its last call, resolved
\* when that call succeeded and rejected with that call's error otherwise; and
\* a last call that failed transiently is the fourth.
RetryIsBounded ==
    (call.fn = "pollStatus" /\ reply /= NoCall) =>
        LET last == call.outcomes[reply.calls]
        IN  /\ reply.calls \in 1..(1 + DefaultRetries)
            /\ \A i \in 1..(reply.calls - 1) : Transient(call.outcomes[i])
            /\ Len(reply.waited) = reply.calls - 1
            /\ Transient(last) => reply.calls = 1 + DefaultRetries
            /\ reply = [settled |-> IF request(last).ok THEN "resolved" ELSE "rejected",
                        value |-> request(last).value,
                        calls |-> reply.calls,
                        waited |-> reply.waited]

\* four calls that each failed transiently: the poll is rejected with the
\* fourth error, after waiting 1, 2 and 4 seconds, although a fifth call
\* would have succeeded
RetryIsBoundedWitness ==
    /\ call.fn = "pollStatus"
    /\ reply /= NoCall
    /\ \A i \in 1..4 : Transient(call.outcomes[i])
    /\ call.outcomes[4].code = "ECONNABORTED"
    /\ call.outcomes[5].response /\ call.outcomes[5].status = 200
    /\ reply.settled = "rejected"
    /\ reply.calls = 4
    /\ reply.waited = <<1000, 2000, 4000>>
    /\ Str(reply.value) = "Request timed out."

---------------------------------------------------------------------------
(* the functions that hold no job state, each applied once to its arguments *)

Calls ==
    {c \in CleanupCalls : IsCleanupCall(c)}
    \cup DeleteCalls
    \cup AuthCalls
    \cup QrCalls
    \cup ParseCalls
    \cup DownloadCalls
    \cup BootCalls
    \cup PollCalls

CallInit ==
    /\ alive = TRUE
    /\ minute = 0
    /\ files = Empty
    /\ jobs = Empty
    /\ tasks = Empty
    /\ ytJobs = Empty
    /\ ytTasks = Empty
    /\ uuidCount = 0
    /\ rejected = 0
    /\ errorLog = {}
    /\ call \in Calls
    /\ reply = NoCall

CallNext ==
    \/ CleanupApply
    \/ DeleteApply
    \/ AuthApply
    \/ QrApply
    \/ ParseApply
    \/ DownloadApply
    \/ BootApply
    \/ PollApply

CallSpec == CallInit /\ [][CallNext]_vars

---------------------------------------------------------------------------
(* the artifacts of a job at its completion *)

\* the record of job j becomes completed in this step
Completes(before, after, j) ==
    /\ j \in DOMAIN after
    /\ after[j].status = "completed"
    /\ j \in DOMAIN before => before[j].status /= "completed"

\* C32: in the step that makes a record completed, the file of its outputPath,
\* and of its audioPath when it has one, is in the temporary directory.
ArtifactsExistAtCompletion ==
    [][/\ \A j \in DOMAIN jobs' :
            Completes(jobs, jobs', j) => existsSync(files', jobs'[j].outputPath)
       /\ \A j \in DOMAIN ytJobs' :
            Completes(ytJobs, ytJobs', j)
                => /\ existsSync(files', ytJobs'[j].outputPath)
                   /\ Present(ytJobs'[j], "audioPath")
                          => existsSync(files', ytJobs'[j].audioPath)]_vars

---------------------------------------------------------------------------
(* the exit code of the downloader *)

\* C33: a download whose yt-dlp process did not end with exit code 0 (a
\* non-zero code, no code at all, or a process that did not start) leaves its
\* job in error: the step in which such a process ends, in any of the
\* strategies, makes the record error and never completed.
SuccessOnlyOnExitZero ==
    [][\A j \in DOMAIN ytTasks, exit \in ExitCodes \ {0}, stderr \in Stderrs :
          /\ YtDownloadDone(j, exit, stderr) => ytJobs'[j].status = "error"
          /\ YtVideoDone(j, exit, stderr) => ytJobs'[j].status = "error"
          /\ (\E unlinkError \in UnlinkMessages \cup {Undefined} :
                  YtAudioDone(j, exit, stderr, unlinkError))
                 => ytJobs'[j].status = "error"]_vars

---------------------------------------------------------------------------
(* the two stages of a separate download *)

\* C34: the audio stage of a separate download starts only in the step in
\* which its video stage ends, and only when that stage succeeded; when the
\* video process did not end with exit code 0 the strategy is over: the audio
\* stage is not started, there is no audio file, and the record is error.
SeparateIsSequential ==
    [][\A j \in DOMAIN ytTasks :
          /\ (j \in DOMAIN ytTasks' /\ ytTasks'[j].pc = "audio" /\ ytTasks[j].pc /= "audio")
                 => /\ ytTasks[j].pc = "video"
                    /\ ytTasks[j].format = "separate"
                    /\ videoFileName(ytTasks[j].id) \in DOMAIN files'
          /\ \A exit \in ExitCodes \ {0}, stderr \in Stderrs :
                 YtVideoDone(j, exit, stderr)
                     => /\ j \notin DOMAIN ytTasks'
                        /\ audioFileName(ytTasks[j].id) \notin DOMAIN files'
                        /\ ytJobs'[j].status = "error"]_vars

---------------------------------------------------------------------------
(* the descriptive fields of a record *)

\* C35: no step changes the originalFileName of a conversion record or the
\* title or format of a download record, in the record or in the body a status
\* poll returns for it.
DescriptiveFieldsKept ==
    [][/\ \A j \in DOMAIN jobs \cap DOMAIN jobs' :
            /\ Get(jobs'[j], "originalFileName") = Get(jobs[j], "originalFileName")
            /\ ConvStatusResponse(j)'.body.originalFileName
                   = ConvStatusResponse(j).body.originalFileName
       /\ \A j \in DOMAIN ytJobs \cap DOMAIN ytJobs' :
            /\ Get(ytJobs'[j], "format") = Get(ytJobs[j], "format")
            /\ Get(ytJobs'[j], "title") = Get(ytJobs[j], "title")
            /\ YtStatusResponse(j)'.body.title = YtStatusResponse(j).body.title
            /\ YtStatusResponse(j)'.body.format = YtStatusResponse(j).body.format]_vars

---------------------------------------------------------------------------
(* the progress a client observes *)

\* C36: the first status poll of a job reports a progress that is not below
\* the one of the submission response, and no step lowers the progress a
\* status poll of a job reports.
ObservedProgressMonotonic ==
    [][/\ \A j \in DOMAIN jobs' :
            IF j \in DOMAIN jobs
            THEN ConvStatusResponse(j)'.body.progress >= ConvStatusResponse(j).body.progress
            ELSE \E req \in ConvRequests :
                    /\ ConvSubmit(req)
                    /\ ConvSubmitResponse(req).body.id = j
                    /\ ConvStatusResponse(j)'.body.progress
                           >= ConvSubmitResponse(req).body.progress
       /\ \A j \in DOMAIN ytJobs' :
            IF j \in DOMAIN ytJobs
            THEN YtStatusResponse(j)'.body.progress >= YtStatusResponse(j).body.progress
            ELSE \E info \in VideoInfos :
                    /\ YtInfoDone(j, info)
                    /\ YtStatusResponse(j)'.body.progress
                           >= YtAcceptedResponse(j, TitleOf(info),
                                                 ytTasks[j].format).body.progress]_vars

\* a download is being processed and its poll reports more than the
\* submission response did
ObservedProgressMonotonicWitness ==
    /\ alive
    /\ \E j \in DOMAIN ytJobs \cap DOMAIN ytTasks :
           /\ ytJobs[j].status = "processing"
           /\ YtStatusResponse(j).body.progress
                  > YtAcceptedResponse(j, Get(ytJobs[j], "title"),
                                       ytJobs[j].format).body.progress

---------------------------------------------------------------------------
(* the upload of a rejected submission *)

\* a submission is rejected for its missing type in this step
RejectsNoType ==
    \E req \in ConvRequests, unlinkFails \in BOOLEAN : ConvSubmitNoType(req, unlinkFails)

\* the path multer staged the upload of this step at
StagedNow == {PathJoin(tempDir, Uuid(uuidCount) \o e) : e \in {".png", ".docx", ".pdf"}}

\* C37 as stated: the step that rejects a submission for its missing type
\* leaves the temporary directory as it was, without the upload it staged.
RejectionLeavesNoFile ==
    [][RejectsNoType => files' = files]_vars

\* C37: the step that rejects a submission for its missing type leaves the
\* temporary directory as it was, without the upload it staged, unless the
\* unlink of deleteFile threw: then the staged upload is the one file added,
\* and its path has been logged.
RejectionLeavesNoFileUnlessLogged ==
    [][RejectsNoType =>
          \/ files' = files /\ errorLog' = errorLog
          \/ \E path \in StagedNow :
                 /\ ~existsSync(files, path)
                 /\ existsSync(files', path)
                 /\ files' = writeFile(files, EntryOf(files', path))
                 /\ errorLog' = errorLog \cup {path}]_vars

\* a submission has been rejected and the directory holds no file
RejectionLeavesNoFileUnlessLoggedWitness ==
    /\ rejected > 0
    /\ uuidCount > 0
    /\ files = Empty
    /\ errorLog = {}
    /\ jobs = Empty

=============================================================================
